---- MODULE Spec2Model ----
(***************************************************************************)
(* A model of idled (younsl/idled): the pricing-lookup subsystem           *)
(* (pkg/pricing), the region fan-out of the command (cmd/idled) and the    *)
(* AWS requests of the IAM scan (pkg/aws).                                 *)
(*                                                                         *)
(* Prices are integers: thousandths of a US dollar (0.114 USD = 114).      *)
(***************************************************************************)
EXTENDS Integers, Sequences, FiniteSets, TLC

\* ------------------------------------------------------------------------
\* Bounds of the model
\* ------------------------------------------------------------------------

\* Price lookups started in one run of the pricing specification.
MaxLookups == 2

\* The region goroutines of one fan-out that perform price lookups.
Procs == {"g1", "g2"}

\* Regions a goroutine may scan: one with a default price table, one without.
Regions == {"ap-northeast-2", "eu-west-1"}

\* The regions of the goroutines of one fan-out, up to the order of the
\* goroutines: the same region twice (a region given twice on the command
\* line), or two regions.
RegionLists == {f \in [Procs -> Regions] : f["g1"] = "ap-northeast-2"}

\* Volume types looked up: one listed in the default tables, one not.
VolumeTypes == {"gp3", "zz9"}

\* Instance types looked up.
InstanceTypes == {"t3.micro"}

\* Volume sizes in GB.
Sizes == {2}

\* Prices the Pricing API may answer with.
APIPrices == {85}

\* ------------------------------------------------------------------------
\* pkg/pricing/types.go
\* ------------------------------------------------------------------------

PricingSourceAPI == "API"
PricingSourceCache == "Cache"
PricingSourceDefault == "Default"
PricingSourceNA == "N/A"

\* DefaultEBSPrices: region -> volume type -> USD per GB-month (x 1000).
DefaultEBSPrices ==
    [r \in {"us-east-1", "ap-northeast-2"} |->
        IF r = "us-east-1"
        THEN [t \in {"gp2", "gp3", "io1", "io2", "st1", "sc1", "standard"} |->
                CASE t = "gp2" -> 100
                  [] t = "gp3" -> 80
                  [] t = "io1" -> 125
                  [] t = "io2" -> 125
                  [] t = "st1" -> 45
                  [] t = "sc1" -> 25
                  [] t = "standard" -> 50]
        ELSE [t \in {"gp2", "gp3", "io1", "io2", "st1", "sc1", "standard"} |->
                CASE t = "gp2" -> 114
                  [] t = "gp3" -> 92
                  [] t = "io1" -> 142
                  [] t = "io2" -> 142
                  [] t = "st1" -> 51
                  [] t = "sc1" -> 29
                  [] t = "standard" -> 57]]

\* The three counters of one (service, region) pair, as created at first use.
ZeroStats == [success |-> 0, failure |-> 0, cache |-> 0]

VARIABLES
    onceState,        \* PricingInitOnce: "new", "running" or "done"
    PricingClient,    \* TRUE when the pricing client is not nil
    InitMessage,      \* the initialisation message: "", "error" or "initialized"
    EC2PricingCache,  \* cache key -> hourly price
    EBSPricingCache,  \* cache key -> price per GB-month
    PricingAPIStats,  \* service -> region -> [success, failure, cache]
    locks,            \* the three RWMutexes: readers and writer of each
    regionOf,         \* the region each goroutine scans
    pc,               \* each goroutine's position in its lookup
    frame,            \* each goroutine's locals of its lookup
    mainPc,           \* the main goroutine: "scan", then printing the statistics
    snapshot,         \* the copy of the statistics GetAPIStats returned
    cacheProv,        \* history: where each cached price came from
    started,          \* history: lookups started
    completed,        \* history: lookups returned, by (service, region)
    pricingSpinners,  \* the services that have a spinner in the registry
    fatal,            \* the runtime has aborted the process
    row,              \* each goroutine's row under construction
    serviceName,      \* the service the command scans
    regions,          \* the region list of the command line
    scanPc,           \* the main goroutine's position in the scan
    spawned,          \* processService: iterations of the go loop done
    wg,               \* processService: the WaitGroup counter
    results,          \* processService: one ScanResult per region entry
    workerPc,         \* each region goroutine's position ("none": not started)
    local,            \* each region goroutine's r, data and err
    allData,          \* processResults: the rows handed to printTable
    errorLines,       \* processResults: the regions of the error lines
    requests,         \* history: the AWS requests issued
    reportJobs,       \* the account: report jobs the requests have started
    calledWith,       \* history: the region each goroutine fetched
    iamCount,         \* the IAM scan: entities the listing returned
    iamIdx,           \* the IAM scan: entities analyzed so far
    iamOut,           \* the IAM scan: the rows of the three tables, errors
    resource,         \* the idle scans: the resource examined last, verdict
    scanned,          \* the idle scans: resources examined so far
    reported,         \* the idle scans: resources put in the result list
    listing,          \* ScanLogGroups: the paginator, page count, errors
    errChan,          \* processLogs: the buffered error channel
    closes,           \* processLogs: times close(errChan) was called
    closerPc,         \* processLogs: the goroutine that waits and closes
    pending,          \* processLogs: errors each worker has still to send
    sent,             \* history: the errors the workers have sent
    allLogGroups,     \* processLogs: the rows appended under mu
    allErrors         \* handleErrors: the messages received so far

pricingVars ==
    <<onceState, PricingClient, InitMessage, EC2PricingCache, EBSPricingCache,
      PricingAPIStats, locks, regionOf, pc, frame, mainPc, snapshot, cacheProv,
      started, completed, pricingSpinners, fatal, row>>

scanVars ==
    <<serviceName, regions, scanPc, spawned, wg, results, workerPc, local,
      allData, errorLines, requests, reportJobs, calledWith, iamCount,
      iamIdx, iamOut>>

idleVars == <<resource, scanned, reported, listing>>

logsVars ==
    <<errChan, closes, closerPc, pending, sent, allLogGroups, allErrors>>

vars == <<pricingVars, scanVars, idleVars, logsVars>>

\* ------------------------------------------------------------------------
\* Go maps and sync.RWMutex
\* ------------------------------------------------------------------------

\* A Go map read m[k]: the zero value when the key is missing.
MapGet(m, k) == IF k \in DOMAIN m THEN m[k] ELSE 0

\* A Go map write m[k] = v.
MapPut(m, k, v) == [x \in DOMAIN m \cup {k} |-> IF x = k THEN v ELSE m[x]]

EmptyMap == [x \in {} |-> 0]

NoProc == "none"

FreeLock == [readers |-> {}, writer |-> NoProc]

\* A read lock that never waits for the writer.
CanRLock_IgnoresWriter(l) == TRUE

\* RWMutex.RLock may proceed: no writer holds the lock.
CanRLock(l) == l.writer = NoProc

\* A write lock that never waits.
CanLock_NeverWaits(l) == TRUE

\* RWMutex.Lock may proceed: nobody holds the lock.
CanLock(l) == l.writer = NoProc /\ l.readers = {}

\* ------------------------------------------------------------------------
\* pkg/pricing: the lookups
\* ------------------------------------------------------------------------

EBSCostFn == "CalculateEBSMonthlyCostWithSource"
EBSPriceFn == "GetEBSVolumePrice"
EC2PriceFn == "GetInstanceHourlyPriceWithSource"

LookupFns == {EBSCostFn, EBSPriceFn, EC2PriceFn}

Services == {"EBS", "EC2"}

\* The service name a lookup passes to the statistics.
ServiceOf(fn) == IF fn = EC2PriceFn THEN "EC2" ELSE "EBS"

\* fmt.Sprintf("ebs:%s:%s", volumeType, region)
EBSCacheKey(volumeType, region) == <<"ebs", volumeType, region>>

\* fmt.Sprintf("%s:%s", region, instanceType)
EC2CacheKey(instanceType, region) == <<region, instanceType>>

CacheKey(fn, t, region) ==
    IF fn = EC2PriceFn THEN EC2CacheKey(t, region) ELSE EBSCacheKey(t, region)

\* The cache a lookup reads and writes, and its lock.
CacheOf(fn) == IF fn = EC2PriceFn THEN EC2PricingCache ELSE EBSPricingCache

\* A cache check that never finds the key.
CacheFound_Never(cache, key) == FALSE

\* `price, found := cache[cacheKey]`
CacheFound(cache, key) == key \in DOMAIN cache

\* A fallback that reads the us-east-1 table whatever the region.
FallbackWithSource_EastOnly(volumeType, region) ==
    LET regionPrices == DefaultEBSPrices["us-east-1"] IN
    IF volumeType \in DOMAIN regionPrices
    THEN [found |-> TRUE, price |-> regionPrices[volumeType]]
    ELSE [found |-> TRUE, price |-> regionPrices["gp2"]]

\* The fallback of CalculateEBSMonthlyCostWithSource: the region's table (the
\* type, then gp2), or the us-east-1 table when the region has none.
FallbackWithSource(volumeType, region) ==
    IF region \in DOMAIN DefaultEBSPrices
    THEN LET regionPrices == DefaultEBSPrices[region] IN
         IF volumeType \in DOMAIN regionPrices
         THEN [found |-> TRUE, price |-> regionPrices[volumeType]]
         ELSE IF "gp2" \in DOMAIN regionPrices
              THEN [found |-> TRUE, price |-> regionPrices["gp2"]]
              ELSE [found |-> FALSE, price |-> 0]
    ELSE IF "us-east-1" \in DOMAIN DefaultEBSPrices
         THEN LET regionPrices == DefaultEBSPrices["us-east-1"] IN
              IF volumeType \in DOMAIN regionPrices
              THEN [found |-> TRUE, price |-> regionPrices[volumeType]]
              ELSE IF "gp2" \in DOMAIN regionPrices
                   THEN [found |-> TRUE, price |-> regionPrices["gp2"]]
                   ELSE [found |-> FALSE, price |-> 0]
         ELSE [found |-> FALSE, price |-> 0]

\* The fallback of GetEBSVolumePrice.
FallbackPrice(volumeType, region) ==
    IF region \in DOMAIN DefaultEBSPrices
    THEN LET regionPrices == DefaultEBSPrices[region] IN
         IF volumeType \in DOMAIN regionPrices
         THEN regionPrices[volumeType]
         ELSE MapGet(regionPrices, "gp2")
    ELSE LET east == IF "us-east-1" \in DOMAIN DefaultEBSPrices
                     THEN DefaultEBSPrices["us-east-1"]
                     ELSE EmptyMap
             price == MapGet(east, volumeType) IN
         IF price = 0 THEN MapGet(east, "gp2") ELSE price

\* What the code does when the price did not come from the cache or the API,
\* after the failure counter was updated.
AfterFailure(fn, volumeType, size, region) ==
    CASE fn = EC2PriceFn ->
            [next |-> "ret", price |-> 0, cost |-> 0, source |-> PricingSourceNA,
             prov |-> ""]
      [] fn = EBSCostFn ->
            LET fb == FallbackWithSource(volumeType, region) IN
            IF fb.found
            THEN [next |-> "ret", price |-> fb.price, cost |-> size * fb.price,
                  source |-> PricingSourceDefault, prov |-> "default"]
            ELSE [next |-> "ret", price |-> 0, cost |-> 0,
                  source |-> PricingSourceNA, prov |-> ""]
      [] fn = EBSPriceFn ->
            [next |-> "wlock", price |-> FallbackPrice(volumeType, region),
             cost |-> 0, source |-> "", prov |-> "default"]

\* A lookup that tags a cached price as fetched.
SourceTag_HitAsAPI(fn, source) == IF fn = EBSPriceFn THEN "" ELSE PricingSourceAPI

\* The tag a lookup returns with a price it read from the cache or the API.
\* GetEBSVolumePrice returns the price alone.
SourceTag(fn, source) == IF fn = EBSPriceFn THEN "" ELSE source

\* The counter a lookup updates, by how it got (or did not get) its price.
StatTypeOf(outcome) ==
    CASE outcome = "hit" -> "cache"
      [] outcome = "api_ok" -> "success"
      [] outcome = "api_failed" -> "failure"
      [] outcome = "no_client" -> "failure"

\* The locals of a lookup (fn .. source) and its history: whether the key was
\* in the cache when the lookup read it and the price it held (inCache, seen),
\* what became of the Pricing API request ("none": not made, "failed", "ok")
\* and the price it answered, and where the price in hand came from (prov).
\* No row under construction
IdleRow ==
    [kind |-> "none", step |-> 0, days |-> 0, size |-> 0,
     monthlyCost |-> 0, source |-> "", savings |-> 0]

IdleFrame ==
    [fn |-> "none", vt |-> "", size |-> 0, found |-> FALSE, price |-> 0,
     err |-> FALSE, statType |-> "", tmp |-> 0, cost |-> 0, source |-> "",
     inCache |-> FALSE, seen |-> 0, api |-> "none", answer |-> 0, prov |-> ""]

LockOf(fn) == IF fn = EC2PriceFn THEN "EC2" ELSE "EBS"

\* The counters of (service, region), created at first use.
StatsOf(stats, service, region) ==
    IF service \in DOMAIN stats /\ region \in DOMAIN stats[service]
    THEN stats[service][region]
    ELSE ZeroStats

\* PricingAPIStats with the maps of (service, region) created if missing.
EnsureStats(stats, service, region) ==
    LET byRegion == IF service \in DOMAIN stats THEN stats[service] ELSE EmptyMap
    IN MapPut(stats, service,
              MapPut(byRegion, region, StatsOf(stats, service, region)))

\* PricingAPIStats[service][region][statType] = value
StoreStat(stats, service, region, statType, value) ==
    LET s == EnsureStats(stats, service, region) IN
    [s EXCEPT ![service] =
        [@ EXCEPT ![region] = [@ EXCEPT ![statType] = value]]]

\* ------------------------------------------------------------------------
\* The steps of one lookup by goroutine p
\* ------------------------------------------------------------------------

Key(p) == CacheKey(frame[p].fn, frame[p].vt, regionOf[p])

\* A region goroutine calls one of the lookups for a resource of its region.
StartLookup(p) ==
    /\ pc[p] = "idle"
    /\ ~fatal
    /\ mainPc = "scan"
    /\ started < MaxLookups
    /\ \E fn \in LookupFns :
       \E t \in (IF fn = EC2PriceFn THEN InstanceTypes ELSE VolumeTypes) :
       \E size \in (IF fn = EC2PriceFn THEN {1} ELSE Sizes) :
          frame' = [frame EXCEPT ![p] = [IdleFrame EXCEPT !.fn = fn, !.vt = t,
                                                          !.size = size]]
    /\ pc' = [pc EXCEPT ![p] = "once"]
    /\ started' = started + 1
    /\ UNCHANGED <<onceState, PricingClient, InitMessage, EC2PricingCache,
                   EBSPricingCache, PricingAPIStats, locks, regionOf,
                   mainPc, snapshot, cacheProv, completed, pricingSpinners,
                   fatal, row, scanVars, idleVars, logsVars>>

\* A Once that lets callers pass while the function still runs
OncePasses_WhileRunning(state) == state # "new"

\* sync.Once: Do returns to a caller that did not run the function only
\* after the function has returned
OncePasses(state) == state = "done"

\* PricingInitOnce.Do(InitPricingClient): the first caller runs the function,
\* a caller that arrives while it runs waits, later callers pass.
OnceDo(p) ==
    /\ pc[p] = "once"
    /\ ~fatal
    /\ \/ /\ onceState = "new"
          /\ onceState' = "running"
          /\ pc' = [pc EXCEPT ![p] = "init"]
       \/ /\ OncePasses(onceState)
          /\ onceState' = onceState
          /\ pc' = [pc EXCEPT ![p] = "rlock"]
    /\ UNCHANGED <<PricingClient, InitMessage, EC2PricingCache,
                   EBSPricingCache, PricingAPIStats, locks, regionOf, frame,
                   mainPc, snapshot, cacheProv, started, completed,
                   pricingSpinners, fatal, row, scanVars, idleVars, logsVars>>

\* InitPricingClient: the configuration loads, or it does not and the client
\* stays nil.
InitPricingClient(p) ==
    /\ pc[p] = "init"
    /\ ~fatal
    /\ \E loaded \in BOOLEAN :
          /\ PricingClient' = loaded
          /\ InitMessage' = IF loaded THEN "initialized" ELSE "error"
    /\ onceState' = "done"
    /\ pc' = [pc EXCEPT ![p] = "rlock"]
    /\ UNCHANGED <<EC2PricingCache, EBSPricingCache, PricingAPIStats, locks,
                   regionOf, frame, mainPc, snapshot, cacheProv, started,
                   completed, pricingSpinners, fatal, row, scanVars, idleVars, logsVars>>

\* EBSPricingCacheLock.RLock() / EC2PricingCacheLock.RLock()
CacheRLock(p) ==
    /\ pc[p] = "rlock"
    /\ ~fatal
    /\ LET l == LockOf(frame[p].fn) IN
       /\ CanRLock(locks[l])
       /\ locks' = [locks EXCEPT ![l].readers = @ \cup {p}]
    /\ pc' = [pc EXCEPT ![p] = "cread"]
    /\ UNCHANGED <<onceState, PricingClient, InitMessage, EC2PricingCache,
                   EBSPricingCache, PricingAPIStats, regionOf, frame,
                   mainPc, snapshot, cacheProv, started, completed,
                   pricingSpinners, fatal, row, scanVars, idleVars, logsVars>>

\* `price, found := cache[cacheKey]`
CacheRead(p) ==
    /\ pc[p] = "cread"
    /\ ~fatal
    /\ LET cache == CacheOf(frame[p].fn)
           hit == CacheFound(cache, Key(p)) IN
       frame' = [frame EXCEPT
                    ![p].found = hit,
                    ![p].price = IF hit THEN MapGet(cache, Key(p)) ELSE 0,
                    ![p].inCache = Key(p) \in DOMAIN cache,
                    ![p].seen = MapGet(cache, Key(p)),
                    ![p].prov = IF hit THEN MapGet(cacheProv, Key(p)) ELSE ""]
    /\ pc' = [pc EXCEPT ![p] = "runlock"]
    /\ UNCHANGED <<onceState, PricingClient, InitMessage, EC2PricingCache,
                   EBSPricingCache, PricingAPIStats, locks, regionOf,
                   mainPc, snapshot, cacheProv, started, completed,
                   pricingSpinners, fatal, row, scanVars, idleVars, logsVars>>

\* RUnlock(); on a hit the lookup goes on to UpdateCacheHitStats.
CacheRUnlock(p) ==
    /\ pc[p] = "runlock"
    /\ ~fatal
    /\ locks' = [locks EXCEPT ![LockOf(frame[p].fn)].readers = @ \ {p}]
    /\ \/ /\ frame[p].found
          /\ frame' = [frame EXCEPT ![p].statType = StatTypeOf("hit")]
          /\ pc' = [pc EXCEPT ![p] = "slock"]
       \/ /\ ~frame[p].found
          /\ frame' = frame
          /\ pc' = [pc EXCEPT ![p] = "api"]
    /\ UNCHANGED <<onceState, PricingClient, InitMessage, EC2PricingCache,
                   EBSPricingCache, PricingAPIStats, regionOf, mainPc,
                   snapshot, cacheProv, started, completed, pricingSpinners,
                   fatal, row, scanVars, idleVars, logsVars>>

\* The goroutines about to access the spinner registry, and whether they
\* write it. None of these accesses holds a lock.
SpinnerAccesses ==
    {[who |-> p, write |-> FALSE] :
        p \in {q \in Procs : \/ (pc[q] = "api" /\ PricingClient)
                              \/ pc[q] \in {"request", "spinstop"}}}
    \cup {[who |-> p, write |-> TRUE] : p \in {q \in Procs : pc[q] = "spinw"}}

\* Another goroutine is about to access the registry while p writes it
RacesOnSpinners(p) == \E a \in SpinnerAccesses : a.who # p

\* `if PricingClient != nil`, then get...PriceFromAPI up to
\* StartServiceSpinner: GetPricingSpinner looks the service up in the
\* registry (api.go:69).
StartServiceSpinner(p) ==
    /\ pc[p] = "api"
    /\ ~fatal
    /\ PricingClient
    /\ pc' = [pc EXCEPT ![p] = IF ServiceOf(frame[p].fn) \in pricingSpinners
                               THEN "request" ELSE "spinw"]
    /\ UNCHANGED <<onceState, PricingClient, InitMessage, EC2PricingCache,
                   EBSPricingCache, PricingAPIStats, locks, regionOf, frame,
                   mainPc, snapshot, cacheProv, started, completed,
                   pricingSpinners, fatal, row, scanVars, idleVars, logsVars>>

\* initPricingSpinner: pricingSpinners[service] = s, unless the service got
\* a spinner meanwhile. The map is written without a lock: when another
\* goroutine is at an access of the map, the write goes through or the
\* runtime aborts the process (fatal error: concurrent map writes).
initPricingSpinner(p) ==
    /\ pc[p] = "spinw"
    /\ ~fatal
    /\ pricingSpinners' = pricingSpinners \cup {ServiceOf(frame[p].fn)}
    /\ \/ /\ fatal' = FALSE
          /\ pc' = [pc EXCEPT ![p] = "request"]
       \/ /\ RacesOnSpinners(p)
          /\ fatal' = TRUE
          /\ pc' = pc
    /\ UNCHANGED <<onceState, PricingClient, InitMessage, EC2PricingCache,
                   EBSPricingCache, PricingAPIStats, locks, regionOf, frame,
                   mainPc, snapshot, cacheProv, started, completed, row,
                   scanVars, idleVars, logsVars>>

\* With a client, GetPricingSpinner returns the spinner (api.go:73) and the
\* GetProducts request is made: it answers with a price or fails (an error,
\* no product, no exact match, an unparsable document). Without a client no
\* request is made.
CallAPI(p) ==
    /\ ~fatal
    /\ \/ /\ pc[p] = "request"
          /\ \E price \in APIPrices :
                frame' = [frame EXCEPT ![p].price = price,
                                       ![p].statType = StatTypeOf("api_ok"),
                                       ![p].api = "ok",
                                       ![p].answer = price,
                                       ![p].prov = "api"]
          /\ pc' = [pc EXCEPT ![p] = "spinstop"]
       \/ /\ pc[p] = "request"
          /\ frame' = [frame EXCEPT ![p].err = TRUE,
                                    ![p].statType = StatTypeOf("api_failed"),
                                    ![p].api = "failed"]
          /\ pc' = [pc EXCEPT ![p] = "spinstop"]
       \/ /\ pc[p] = "api"
          /\ ~PricingClient
          /\ frame' = [frame EXCEPT ![p].err = TRUE,
                                    ![p].statType = StatTypeOf("no_client")]
          /\ pc' = [pc EXCEPT ![p] = "slock"]
    /\ UNCHANGED <<onceState, PricingClient, InitMessage, EC2PricingCache,
                   EBSPricingCache, PricingAPIStats, locks, regionOf,
                   mainPc, snapshot, cacheProv, started, completed,
                   pricingSpinners, fatal, row, scanVars, idleVars, logsVars>>

\* The deferred StopServiceSpinner: it looks the service up in the registry
\* (api.go:87) and stops the spinner.
StopServiceSpinner(p) ==
    /\ pc[p] = "spinstop"
    /\ ~fatal
    /\ pc' = [pc EXCEPT ![p] = "slock"]
    /\ UNCHANGED <<onceState, PricingClient, InitMessage, EC2PricingCache,
                   EBSPricingCache, PricingAPIStats, locks, regionOf, frame,
                   mainPc, snapshot, cacheProv, started, completed,
                   pricingSpinners, fatal, row, scanVars, idleVars, logsVars>>

\* updatePricingAPIStats: PricingAPIStatsLock.Lock()
StatsLock(p) ==
    /\ pc[p] = "slock"
    /\ ~fatal
    /\ CanLock(locks["Stats"])
    /\ locks' = [locks EXCEPT !["Stats"].writer = p]
    /\ pc' = [pc EXCEPT ![p] = "sload"]
    /\ UNCHANGED <<onceState, PricingClient, InitMessage, EC2PricingCache,
                   EBSPricingCache, PricingAPIStats, regionOf, frame,
                   mainPc, snapshot, cacheProv, started, completed,
                   pricingSpinners, fatal, row, scanVars, idleVars, logsVars>>

\* updatePricingAPIStats: the maps are created if missing, and the counter is
\* read (the first half of `PricingAPIStats[service][region][statType]++`).
StatsLoad(p) ==
    /\ pc[p] = "sload"
    /\ ~fatal
    /\ LET service == ServiceOf(frame[p].fn) IN
       /\ PricingAPIStats' = EnsureStats(PricingAPIStats, service, regionOf[p])
       /\ frame' = [frame EXCEPT ![p].tmp =
             StatsOf(PricingAPIStats, service, regionOf[p])[frame[p].statType]]
    /\ pc' = [pc EXCEPT ![p] = "sstore"]
    /\ UNCHANGED <<onceState, PricingClient, InitMessage, EC2PricingCache,
                   EBSPricingCache, locks, regionOf, mainPc, snapshot,
                   cacheProv, started, completed, pricingSpinners, fatal,
                   row, scanVars, idleVars, logsVars>>

\* updatePricingAPIStats: the counter is written back, one higher.
StatsStore(p) ==
    /\ pc[p] = "sstore"
    /\ ~fatal
    /\ PricingAPIStats' = StoreStat(PricingAPIStats, ServiceOf(frame[p].fn),
                                    regionOf[p], frame[p].statType,
                                    frame[p].tmp + 1)
    /\ pc' = [pc EXCEPT ![p] = "sunlock"]
    /\ UNCHANGED <<onceState, PricingClient, InitMessage, EC2PricingCache,
                   EBSPricingCache, locks, regionOf, frame, mainPc,
                   snapshot, cacheProv, started, completed, pricingSpinners,
                   fatal, row, scanVars, idleVars, logsVars>>

\* updatePricingAPIStats returns (the deferred Unlock), and the lookup goes
\* on: a hit returns, a fetched price is cached, a failure falls back.
StatsUnlock(p) ==
    /\ pc[p] = "sunlock"
    /\ ~fatal
    /\ locks' = [locks EXCEPT !["Stats"].writer = NoProc]
    /\ LET f == frame[p] IN
       \/ /\ f.statType = "cache"
          /\ frame' = [frame EXCEPT
                ![p].cost = f.size * f.price,
                ![p].source = SourceTag(f.fn, PricingSourceCache)]
          /\ pc' = [pc EXCEPT ![p] = "ret"]
       \/ /\ f.statType = "success"
          /\ frame' = frame
          /\ pc' = [pc EXCEPT ![p] = "wlock"]
       \/ /\ f.statType = "failure"
          /\ LET a == AfterFailure(f.fn, f.vt, f.size, regionOf[p]) IN
             /\ frame' = [frame EXCEPT
                   ![p].price = a.price,
                   ![p].cost = a.cost,
                   ![p].source = a.source,
                   ![p].prov = a.prov]
             /\ pc' = [pc EXCEPT ![p] = a.next]
    /\ UNCHANGED <<onceState, PricingClient, InitMessage, EC2PricingCache,
                   EBSPricingCache, PricingAPIStats, regionOf, mainPc,
                   snapshot, cacheProv, started, completed, pricingSpinners,
                   fatal, row, scanVars, idleVars, logsVars>>

\* EBSPricingCacheLock.Lock() / EC2PricingCacheLock.Lock()
CacheLock(p) ==
    /\ pc[p] = "wlock"
    /\ ~fatal
    /\ LET l == LockOf(frame[p].fn) IN
       /\ CanLock(locks[l])
       /\ locks' = [locks EXCEPT ![l].writer = p]
    /\ pc' = [pc EXCEPT ![p] = "cwrite"]
    /\ UNCHANGED <<onceState, PricingClient, InitMessage, EC2PricingCache,
                   EBSPricingCache, PricingAPIStats, regionOf, frame,
                   mainPc, snapshot, cacheProv, started, completed,
                   pricingSpinners, fatal, row, scanVars, idleVars, logsVars>>

\* `cache[cacheKey] = price`
CacheWrite(p) ==
    /\ pc[p] = "cwrite"
    /\ ~fatal
    /\ \/ /\ frame[p].fn = EC2PriceFn
          /\ EC2PricingCache' = MapPut(EC2PricingCache, Key(p), frame[p].price)
          /\ EBSPricingCache' = EBSPricingCache
       \/ /\ frame[p].fn # EC2PriceFn
          /\ EBSPricingCache' = MapPut(EBSPricingCache, Key(p), frame[p].price)
          /\ EC2PricingCache' = EC2PricingCache
    /\ cacheProv' = MapPut(cacheProv, Key(p), frame[p].prov)
    /\ pc' = [pc EXCEPT ![p] = "wunlock"]
    /\ UNCHANGED <<onceState, PricingClient, InitMessage, PricingAPIStats,
                   locks, regionOf, frame, mainPc, snapshot, started,
                   completed, pricingSpinners, fatal, row, scanVars, idleVars, logsVars>>

\* Unlock(), and the lookup returns the price it cached.
CacheUnlock(p) ==
    /\ pc[p] = "wunlock"
    /\ ~fatal
    /\ locks' = [locks EXCEPT ![LockOf(frame[p].fn)].writer = NoProc]
    /\ frame' = [frame EXCEPT
          ![p].cost = frame[p].size * frame[p].price,
          ![p].source = SourceTag(frame[p].fn, PricingSourceAPI)]
    /\ pc' = [pc EXCEPT ![p] = "ret"]
    /\ UNCHANGED <<onceState, PricingClient, InitMessage, EC2PricingCache,
                   EBSPricingCache, PricingAPIStats, regionOf, mainPc,
                   snapshot, cacheProv, started, completed, pricingSpinners,
                   fatal, row, scanVars, idleVars, logsVars>>

\* The caller takes the result; the goroutine goes on to its next resource.
Return(p) ==
    /\ pc[p] = "ret"
    /\ ~fatal
    /\ row[p].step = 0
    /\ pc' = [pc EXCEPT ![p] = "idle"]
    /\ frame' = [frame EXCEPT ![p] = IdleFrame]
    /\ completed' = [completed EXCEPT
          ![<<ServiceOf(frame[p].fn), regionOf[p]>>] = @ + 1]
    /\ UNCHANGED <<onceState, PricingClient, InitMessage, EC2PricingCache,
                   EBSPricingCache, PricingAPIStats, locks, regionOf,
                   mainPc, snapshot, cacheProv, started, pricingSpinners,
                   fatal, row, scanVars, idleVars, logsVars>>

\* ------------------------------------------------------------------------
\* The cost estimates of a row: GetStoppedInstances, GetAvailableVolumes
\* ------------------------------------------------------------------------

\* Days since the instance stopped, or since the volume was last attached
ElapsedDays == {0, 45}

\* CalculateMonthlyCostWithSource, from the hourly price and the tag that
\* GetInstanceHourlyPriceWithSource returned
CalculateMonthlyCostWithSource(hourlyPrice, source) ==
    IF source = PricingSourceNA
    THEN [cost |-> 0, source |-> PricingSourceNA]
    ELSE [cost |-> hourlyPrice * 730, source |-> source]

\* CalculateSavingsWithSource, from the hourly price and the tag that its
\* own call of GetInstanceHourlyPriceWithSource returned
CalculateSavingsWithSource(hourlyPrice, source, elapsedDays) ==
    IF source = PricingSourceNA
    THEN 0
    ELSE (hourlyPrice * 730 * elapsedDays) \div 30

\* CalculateEBSSavings, from the cost and the tag that its own call of
\* CalculateEBSMonthlyCostWithSource returned; the days are ignored
CalculateEBSSavings(monthlyCost, source, days) ==
    IF source = PricingSourceNA THEN 0 ELSE monthlyCost

\* formatter.GetPricingMarker
GetPricingMarker(source) ==
    CASE source = "API" -> "API"
      [] source = "Cache" -> "CACHE"
      [] source = "N/A" -> "N/A"
      [] OTHER -> "-"

\* The lookup behind the figures of a row
RowFn(kind) == IF kind = "EC2" THEN EC2PriceFn ELSE EBSCostFn

\* The loop body of GetStoppedInstances or GetAvailableVolumes reaches the
\* cost estimates of a resource of the region and makes the first call:
\* CalculateMonthlyCostWithSource or CalculateEBSMonthlyCostWithSource.
StartRow(p) ==
    /\ pc[p] = "idle"
    /\ ~fatal
    /\ mainPc = "scan"
    /\ row[p].step = 0
    /\ \E kind \in Services : \E days \in ElapsedDays :
       \E t \in (IF kind = "EC2" THEN InstanceTypes ELSE {"gp3"}) :
       \E size \in (IF kind = "EC2" THEN {1} ELSE Sizes) :
          /\ row' = [row EXCEPT ![p] = [IdleRow EXCEPT !.kind = kind,
                                                       !.step = 1,
                                                       !.days = days,
                                                       !.size = size]]
          /\ frame' = [frame EXCEPT ![p] = [IdleFrame EXCEPT
                          !.fn = RowFn(kind), !.vt = t, !.size = size]]
    /\ pc' = [pc EXCEPT ![p] = "once"]
    /\ started' = started + 1
    /\ UNCHANGED <<onceState, PricingClient, InitMessage, EC2PricingCache,
                   EBSPricingCache, PricingAPIStats, locks, regionOf,
                   mainPc, snapshot, cacheProv, completed, pricingSpinners,
                   fatal, scanVars, idleVars, logsVars>>

\* The first call returns the monthly cost and the pricing source of the
\* row, and the second call is made for the savings: it looks the price up
\* again (CalculateSavingsWithSource, CalculateEBSSavings).
SecondLookup(p) ==
    /\ pc[p] = "ret"
    /\ ~fatal
    /\ row[p].step = 1
    /\ LET f == frame[p]
           first == IF row[p].kind = "EC2"
                    THEN CalculateMonthlyCostWithSource(f.price, f.source)
                    ELSE [cost |-> f.cost, source |-> f.source] IN
       row' = [row EXCEPT ![p].step = 2,
                          ![p].monthlyCost = first.cost,
                          ![p].source = first.source]
    /\ frame' = [frame EXCEPT ![p] = [IdleFrame EXCEPT
                    !.fn = frame[p].fn, !.vt = frame[p].vt,
                    !.size = frame[p].size]]
    /\ pc' = [pc EXCEPT ![p] = "once"]
    /\ started' = started + 1
    /\ completed' = [completed EXCEPT
          ![<<ServiceOf(frame[p].fn), regionOf[p]>>] = @ + 1]
    /\ UNCHANGED <<onceState, PricingClient, InitMessage, EC2PricingCache,
                   EBSPricingCache, PricingAPIStats, locks, regionOf,
                   mainPc, snapshot, cacheProv, pricingSpinners, fatal,
                   scanVars, idleVars, logsVars>>

\* The second call returns the savings and the row is built: InstanceInfo or
\* VolumeInfo with EstimatedMonthlyCost, EstimatedSavings, PricingSource.
BuildRow(p) ==
    /\ pc[p] = "ret"
    /\ ~fatal
    /\ row[p].step = 2
    /\ LET f == frame[p] IN
       row' = [row EXCEPT
                 ![p].step = 3,
                 ![p].savings =
                     IF row[p].kind = "EC2"
                     THEN CalculateSavingsWithSource(f.price, f.source,
                                                     row[p].days)
                     ELSE CalculateEBSSavings(f.cost, f.source, row[p].days)]
    /\ frame' = [frame EXCEPT ![p] = IdleFrame]
    /\ pc' = [pc EXCEPT ![p] = "idle"]
    /\ completed' = [completed EXCEPT
          ![<<ServiceOf(frame[p].fn), regionOf[p]>>] = @ + 1]
    /\ UNCHANGED <<onceState, PricingClient, InitMessage, EC2PricingCache,
                   EBSPricingCache, PricingAPIStats, locks, regionOf,
                   mainPc, snapshot, cacheProv, started, pricingSpinners,
                   fatal, scanVars, idleVars, logsVars>>

\* ------------------------------------------------------------------------
\* formatter.PrintPricingAPIStats, once all services are processed
\* ------------------------------------------------------------------------

Main == "main"

\* GetAPIStats: PricingAPIStatsLock.RLock(). Every region goroutine has been
\* joined by then.
GetAPIStatsRLock ==
    /\ mainPc = "scan"
    /\ \A p \in Procs : pc[p] = "idle"
    /\ CanRLock(locks["Stats"])
    /\ locks' = [locks EXCEPT !["Stats"].readers = @ \cup {Main}]
    /\ mainPc' = "copy"
    /\ UNCHANGED <<onceState, PricingClient, InitMessage, EC2PricingCache,
                   EBSPricingCache, PricingAPIStats, regionOf, pc, frame,
                   snapshot, cacheProv, started, completed, pricingSpinners,
                   fatal, row, scanVars, idleVars, logsVars>>

\* A map value that is the live map of a service itself and not a copy of it
SharedWith(service) == [shared |-> service]

IsShared(m) == DOMAIN m = {"shared"}

\* What a holder of the map m reads through it
Deref(m) ==
    [service \in DOMAIN m |->
        IF IsShared(m[service]) THEN PricingAPIStats[m[service].shared]
        ELSE m[service]]

\* A copy of the top level only: the maps of the regions are the live ones
CopyStats_TopLevelOnly(stats) ==
    [service \in DOMAIN stats |-> SharedWith(service)]

\* GetAPIStats: a new map is made at each of the three levels
CopyStats(stats) ==
    [service \in DOMAIN stats |->
        [region \in DOMAIN stats[service] |->
            [key \in DOMAIN stats[service][region] |->
                stats[service][region][key]]]]

\* GetAPIStats called while lookups are still running: RLock()
GetAPIStatsCalled ==
    /\ mainPc = "scan"
    /\ CanRLock(locks["Stats"])
    /\ locks' = [locks EXCEPT !["Stats"].readers = @ \cup {Main}]
    /\ mainPc' = "copy"
    /\ UNCHANGED <<onceState, PricingClient, InitMessage, EC2PricingCache,
                   EBSPricingCache, PricingAPIStats, regionOf, pc, frame,
                   snapshot, cacheProv, started, completed, pricingSpinners,
                   fatal, row, scanVars, idleVars, logsVars>>

\* GetAPIStats: the deep copy of the three levels of the map.
GetAPIStatsCopy ==
    /\ mainPc = "copy"
    /\ snapshot' = CopyStats(PricingAPIStats)
    /\ mainPc' = "runlock"
    /\ UNCHANGED <<onceState, PricingClient, InitMessage, EC2PricingCache,
                   EBSPricingCache, PricingAPIStats, locks, regionOf, pc,
                   frame, cacheProv, started, completed, pricingSpinners,
                   fatal, row, scanVars, idleVars, logsVars>>

\* GetAPIStats returns (the deferred RUnlock) and the table is printed.
GetAPIStatsRUnlock ==
    /\ mainPc = "runlock"
    /\ locks' = [locks EXCEPT !["Stats"].readers = @ \ {Main}]
    /\ mainPc' = "printed"
    /\ UNCHANGED <<onceState, PricingClient, InitMessage, EC2PricingCache,
                   EBSPricingCache, PricingAPIStats, regionOf, pc, frame,
                   snapshot, cacheProv, started, completed, pricingSpinners,
                   fatal, row, scanVars, idleVars, logsVars>>

\* The pricing package before its first lookup
PricingInit ==
    /\ onceState = "new"
    /\ PricingClient = FALSE
    /\ InitMessage = ""
    /\ EC2PricingCache = EmptyMap
    /\ EBSPricingCache = EmptyMap
    /\ PricingAPIStats = EmptyMap
    /\ locks = [l \in {"EBS", "EC2", "Stats"} |-> FreeLock]
    /\ pc = [p \in Procs |-> "idle"]
    /\ frame = [p \in Procs |-> IdleFrame]
    /\ mainPc = "scan"
    /\ snapshot = EmptyMap
    /\ cacheProv = EmptyMap
    /\ started = 0
    /\ completed = [sr \in Services \X Regions |-> 0]
    /\ pricingSpinners = {}
    /\ fatal = FALSE
    /\ row = [p \in Procs |-> IdleRow]

\* ------------------------------------------------------------------------
\* The scan of one service: processService, processResults, processIAM
\* ------------------------------------------------------------------------

\* Longest region list of the command line
MaxRegions == 2

\* Most users, roles or policies a listing returns
MaxEntities == 1

\* The services scanned through processService, one request each
RegionalServices == {"EC2", "EBS", "Elastic IP", "ELB (v2)"}

ScanServices == RegionalServices \cup {"IAM", "Config"}

\* The region lists: not empty, not de-duplicated
RegionArgs == UNION {[1..n -> Regions] : n \in 1..MaxRegions}

Slots == 1..MaxRegions

\* A nil *time.Time
NoDate == -1

\* Dates, as hours before the scan
Dates == {2183, 2880}

\* IAMClient.idleThreshold, in days
idleThreshold == 90

\* utils.CalculateElapsedDays: int(time.Since(since).Hours() / 24)
CalculateElapsedDays(since) == since \div 24

\* lastUsedDate.After(other)
After(date, other) == date < other

Req(verb, noun) == [verb |-> verb, noun |-> noun]

\* The request of the per-region client method of a service
RegionRequest(svc) ==
    CASE svc = "EC2" -> Req("Describe", "Instances")
      [] svc = "EBS" -> Req("Describe", "Volumes")
      [] svc = "ELB (v2)" -> Req("Describe", "LoadBalancers")
      [] svc = "Config" -> Req("Describe", "ConfigRules")
      [] OTHER -> Req("Describe", "Addresses")

\* The price request a region's rows may need (EC2 and EBS rows are priced)
PriceRequests(svc, viaAPI) ==
    IF svc \in {"EC2", "EBS"} /\ viaAPI THEN {Req("Get", "Products")} ELSE {}

GenerateReport == Req("Generate", "ServiceLastAccessedDetails")

\* analyzeUser: the requests for one user
UserRequests(user) ==
    {Req("List", "AccessKeys"), Req("List", "MFADevices"),
     Req("List", "UserPolicies"), Req("List", "AttachedUserPolicies"),
     GenerateReport}
    \cup (IF user.activeKey THEN {Req("Get", "AccessKeyLastUsed")} ELSE {})

\* analyzeRole: the requests for one role
RoleRequests ==
    {Req("Get", "Role"), Req("List", "RolePolicies"),
     Req("List", "AttachedRolePolicies"), GenerateReport}

\* analyzePolicy: the requests for one policy
PolicyRequests == {Req("List", "PolicyVersions"), GenerateReport}

\* The users, roles and customer managed policies a listing may return
IAMUsers ==
    [CreateDate : {2880}, PasswordLastUsed : {NoDate, 2183},
     activeKey : BOOLEAN]

IAMRoles == [CreateDate : {2880}, serviceLinked : BOOLEAN]

IAMPolicies ==
    [AttachmentCount : {0, 1}, UpdateDate : Dates \cup {NoDate},
     CreateDate : {2880}]

\* analyzeUser: the last activity and the idle flag of a user; keyUsed is
\* the date GetAccessKeyLastUsed gave for an active key, if any
UserInfo(user, keyUsed) ==
    LET byPassword == IF user.PasswordLastUsed # NoDate
                      THEN user.PasswordLastUsed ELSE user.CreateDate
        LastActivity == IF /\ user.activeKey
                           /\ keyUsed # NoDate
                           /\ After(keyUsed, byPassword)
                        THEN keyUsed ELSE byPassword
        IdleDays == CalculateElapsedDays(LastActivity)
    IN  [IdleDays |-> IdleDays, IsIdle |-> IdleDays > idleThreshold]

\* analyzeRole: lastUsed is the date GetRole gave, if any
RoleInfo(role, lastUsed) ==
    IF lastUsed # NoDate
    THEN [IdleDays |-> CalculateElapsedDays(lastUsed),
          IsIdle |-> CalculateElapsedDays(lastUsed) > idleThreshold]
    ELSE IF ~role.serviceLinked
    THEN [IdleDays |-> CalculateElapsedDays(role.CreateDate),
          IsIdle |-> CalculateElapsedDays(role.CreateDate) > idleThreshold]
    ELSE [IdleDays |-> 0, IsIdle |-> FALSE]

\* analyzePolicy with the update date left out of the idle flag
PolicyInfo_IgnoresUpdate(policy) ==
    LET IsAttached == policy.AttachmentCount > 0
    IN  [IsAttached |-> IsAttached,
         UpdateDate |-> policy.UpdateDate,
         IdleDays |-> CalculateElapsedDays(IF policy.UpdateDate # NoDate
                                           THEN policy.UpdateDate
                                           ELSE policy.CreateDate),
         IsIdle |-> ~IsAttached]

\* analyzePolicy: idle when not attached, unless updated within the threshold
PolicyInfo(policy) ==
    LET IsAttached == policy.AttachmentCount > 0
    IN  IF policy.UpdateDate # NoDate
        THEN [IsAttached |-> IsAttached,
              UpdateDate |-> policy.UpdateDate,
              IdleDays |-> CalculateElapsedDays(policy.UpdateDate),
              IsIdle |-> /\ ~IsAttached
                         /\ ~(CalculateElapsedDays(policy.UpdateDate)
                                <= idleThreshold)]
        ELSE [IsAttached |-> IsAttached,
              UpdateDate |-> NoDate,
              IdleDays |-> CalculateElapsedDays(policy.CreateDate),
              IsIdle |-> ~IsAttached]

\* The zero value of ScanResult[T]
EmptyResult == [Region |-> "", Data |-> <<>>, Err |-> FALSE]

EmptyLocal == [r |-> "", data |-> <<>>, err |-> FALSE]

EmptyIAMOut == [users |-> <<>>, roles |-> <<>>, policies |-> <<>>,
                errors |-> {}]

\* The region goroutines launched so far
Launched == {i \in Slots : workerPc[i] # "none"}

WaitReturns_AtOnce(counter) == TRUE

\* wg.Wait() returns when the counter is zero
WaitReturns(counter) == counter = 0

RECURSIVE RowsFrom(_, _)
\* processResults: the rows of the slots without an error, in slot order
RowsFrom(rs, i) ==
    IF i > Len(rs) THEN <<>>
    ELSE (IF rs[i].Err THEN <<>> ELSE rs[i].Data) \o RowsFrom(rs, i + 1)

RECURSIVE ErrorsFrom(_, _)
\* processResults: one "Error in region" line per slot with an error
ErrorsFrom(rs, i) ==
    IF i > Len(rs) THEN <<>>
    ELSE (IF rs[i].Err THEN <<rs[i].Region>> ELSE <<>>)
         \o ErrorsFrom(rs, i + 1)

\* processService: startScan, results := make([]ScanResult[T], len(regions))
StartScan ==
    /\ scanPc = "start"
    /\ serviceName \in RegionalServices
    /\ results' = [i \in 1..Len(regions) |-> EmptyResult]
    /\ scanPc' = "loop"
    /\ UNCHANGED <<serviceName, regions, spawned, wg, workerPc, local,
                   allData, errorLines, requests, reportJobs, calledWith,
                   iamCount, iamIdx, iamOut, pricingVars, idleVars, logsVars>>

\* processService: one iteration of the loop over the region list,
\* wg.Add(1) and go func(idx, r) with idx = i, r = region
GoRegion ==
    /\ scanPc = "loop"
    /\ spawned < Len(regions)
    /\ wg' = wg + 1
    /\ workerPc' = [workerPc EXCEPT ![spawned + 1] = "region"]
    /\ local' = [local EXCEPT ![spawned + 1].r = regions[spawned + 1]]
    /\ spawned' = spawned + 1
    /\ UNCHANGED <<serviceName, regions, scanPc, results, allData,
                   errorLines, requests, reportJobs, calledWith, iamCount,
                   iamIdx, iamOut, pricingVars, idleVars, logsVars>>

\* The slot of the goroutine launched last, whichever goroutine asks
SlotOf_LastLaunched(i) == spawned

\* idx of go func(idx int, r string) {...}(i, region): the goroutine's own
\* copy of the loop index
SlotOf(i) == i

\* The goroutine: results[idx].Region = r
SetRegion(i) ==
    /\ workerPc[i] = "region"
    /\ results' = [results EXCEPT ![SlotOf(i)].Region = local[i].r]
    /\ workerPc' = [workerPc EXCEPT ![i] = "fetch"]
    /\ UNCHANGED <<serviceName, regions, scanPc, spawned, wg, local,
                   allData, errorLines, requests, reportJobs, calledWith,
                   iamCount, iamIdx, iamOut, pricingVars, idleVars, logsVars>>

\* The goroutine: data, err := getDataForRegion(r). The client may fail to
\* load (no request), the request may fail, or it returns the region's rows.
\* GetIdleELBs returns the idle load balancers found so far together with
\* an error when the check of another load balancer failed.
GetDataForRegion(i) ==
    /\ workerPc[i] = "fetch"
    /\ \/ /\ local' = [local EXCEPT ![i].err = TRUE]
          /\ UNCHANGED requests
       \/ /\ local' = [local EXCEPT ![i].err = TRUE]
          /\ requests' = requests \cup {RegionRequest(serviceName)}
       \/ /\ serviceName = "ELB (v2)"
          /\ local' = [local EXCEPT ![i].err = TRUE,
                                    ![i].data = <<local[i].r>>]
          /\ requests' = requests \cup {RegionRequest(serviceName)}
       \/ \E rows \in {<<>>, <<local[i].r>>} : \E viaAPI \in BOOLEAN :
          /\ local' = [local EXCEPT ![i].data = rows]
          /\ requests' = requests \cup {RegionRequest(serviceName)}
                \cup (IF rows = <<>> THEN {}
                      ELSE PriceRequests(serviceName, viaAPI))
    /\ calledWith' = [calledWith EXCEPT ![i] = local[i].r]
    /\ workerPc' = [workerPc EXCEPT ![i] = "store"]
    /\ UNCHANGED <<serviceName, regions, scanPc, spawned, wg, results,
                   allData, errorLines, reportJobs, iamCount, iamIdx,
                   iamOut, pricingVars, idleVars, logsVars>>

\* The goroutine: results[idx].Data = data; results[idx].Err = err
StoreResult(i) ==
    /\ workerPc[i] = "store"
    /\ results' = [results EXCEPT ![SlotOf(i)].Data = local[i].data,
                                  ![SlotOf(i)].Err = local[i].err]
    /\ workerPc' = [workerPc EXCEPT ![i] = "defer"]
    /\ UNCHANGED <<serviceName, regions, scanPc, spawned, wg, local,
                   allData, errorLines, requests, reportJobs, calledWith,
                   iamCount, iamIdx, iamOut, pricingVars, idleVars, logsVars>>

\* The goroutine: the deferred wg.Done()
WgDone(i) ==
    /\ workerPc[i] = "defer"
    /\ wg' = wg - 1
    /\ workerPc' = [workerPc EXCEPT ![i] = "exited"]
    /\ UNCHANGED <<serviceName, regions, scanPc, spawned, results, local,
                   allData, errorLines, requests, reportJobs, calledWith,
                   iamCount, iamIdx, iamOut, pricingVars, idleVars, logsVars>>

\* processService: wg.Wait() after the loop
WgWait ==
    /\ scanPc = "loop"
    /\ spawned = Len(regions)
    /\ WaitReturns(wg)
    /\ scanPc' = "process"
    /\ UNCHANGED <<serviceName, regions, spawned, wg, results, workerPc,
                   local, allData, errorLines, requests, reportJobs,
                   calledWith, iamCount, iamIdx, iamOut, pricingVars, idleVars, logsVars>>

\* A processResults that prints the tables and no error line
processResults_Silent ==
    /\ scanPc = "process"
    /\ allData' = RowsFrom(results, 1)
    /\ errorLines' = <<>>
    /\ scanPc' = "done"
    /\ UNCHANGED <<serviceName, regions, spawned, wg, results, workerPc,
                   local, requests, reportJobs, calledWith, iamCount,
                   iamIdx, iamOut, pricingVars, idleVars, logsVars>>

\* processResults: the error lines, then printTable and printSummary
processResults ==
    /\ scanPc = "process"
    /\ allData' = RowsFrom(results, 1)
    /\ errorLines' = ErrorsFrom(results, 1)
    /\ scanPc' = "done"
    /\ UNCHANGED <<serviceName, regions, spawned, wg, results, workerPc,
                   local, requests, reportJobs, calledWith, iamCount,
                   iamIdx, iamOut, pricingVars, idleVars, logsVars>>

\* processConfig: startScan, results := make([]struct{...}, len(regions))
StartConfig ==
    /\ scanPc = "start"
    /\ serviceName = "Config"
    /\ results' = [i \in 1..Len(regions) |-> EmptyResult]
    /\ scanPc' = "cfgloop"
    /\ UNCHANGED <<serviceName, regions, spawned, wg, workerPc, local,
                   allData, errorLines, requests, reportJobs, calledWith,
                   iamCount, iamIdx, iamOut, pricingVars, idleVars, logsVars>>

\* processConfig: one iteration of the loop over the region list
GoConfig ==
    /\ scanPc = "cfgloop"
    /\ spawned < Len(regions)
    /\ wg' = wg + 1
    /\ workerPc' = [workerPc EXCEPT ![spawned + 1] = "client"]
    /\ local' = [local EXCEPT ![spawned + 1].r = regions[spawned + 1]]
    /\ spawned' = spawned + 1
    /\ UNCHANGED <<serviceName, regions, scanPc, results, allData,
                   errorLines, requests, reportJobs, calledWith, iamCount,
                   iamIdx, iamOut, pricingVars, idleVars, logsVars>>

\* The goroutine: aws.NewConfigClient(r). When it fails the goroutine
\* prints "Error initializing AWS Config client for region ...", stores the
\* error and the region in its slot and returns.
NewConfigClient(i) ==
    /\ workerPc[i] = "client"
    /\ \/ /\ errorLines' = Append(errorLines, local[i].r)
          /\ local' = [local EXCEPT ![i].err = TRUE]
          /\ results' = [results EXCEPT ![SlotOf(i)].Err = TRUE,
                                        ![SlotOf(i)].Region = local[i].r]
          /\ workerPc' = [workerPc EXCEPT ![i] = "defer"]
       \/ /\ workerPc' = [workerPc EXCEPT ![i] = "list"]
          /\ UNCHANGED <<errorLines, local, results>>
    /\ calledWith' = [calledWith EXCEPT ![i] = local[i].r]
    /\ UNCHANGED <<serviceName, regions, scanPc, spawned, wg, allData,
                   requests, reportJobs, iamCount, iamIdx, iamOut,
                   pricingVars, idleVars, logsVars>>

\* The listings of a region that fail together in one scan
ConfigFailures ==
    {{}, {"rules"}, {"rules", "recorders", "channels"}}

\* The goroutine: GetAllConfigRules, GetAllConfigRecorders and
\* GetAllConfigDeliveryChannels. A failed listing is printed ("Error getting
\* AWS Config ... for region ...") and leaves results[idx].err alone; what
\* the listings returned and the region are stored in the slot.
GetAllConfig(i) ==
    /\ workerPc[i] = "list"
    /\ \E failed \in ConfigFailures :
       \E rows \in (IF Cardinality(failed) = 3 THEN {<<>>}
                    ELSE {<<>>, <<local[i].r>>}) :
          /\ errorLines' = errorLines \o
                [k \in 1..Cardinality(failed) |-> local[i].r]
          /\ local' = [local EXCEPT ![i].data = rows,
                                    ![i].err = failed # {}]
          /\ results' = [results EXCEPT ![SlotOf(i)].Data = rows,
                                        ![SlotOf(i)].Region = local[i].r]
    /\ requests' = requests \cup {RegionRequest(serviceName),
                                  Req("Describe", "ConfigurationRecorders"),
                                  Req("Describe", "DeliveryChannels")}
    /\ workerPc' = [workerPc EXCEPT ![i] = "defer"]
    /\ UNCHANGED <<serviceName, regions, scanPc, spawned, wg, allData,
                   reportJobs, calledWith, iamCount, iamIdx, iamOut,
                   pricingVars, idleVars, logsVars>>

\* processConfig: wg.Wait() after the loop
ConfigWait ==
    /\ scanPc = "cfgloop"
    /\ spawned = Len(regions)
    /\ WaitReturns(wg)
    /\ scanPc' = "cfgprocess"
    /\ UNCHANGED <<serviceName, regions, spawned, wg, results, workerPc,
                   local, allData, errorLines, requests, reportJobs,
                   calledWith, iamCount, iamIdx, iamOut, pricingVars,
                   idleVars, logsVars>>

\* processConfig: "Error in region" for the slots with an error, the rows of
\* the others, and the three tables
processConfigResults ==
    /\ scanPc = "cfgprocess"
    /\ allData' = RowsFrom(results, 1)
    /\ errorLines' = errorLines \o ErrorsFrom(results, 1)
    /\ scanPc' = "done"
    /\ UNCHANGED <<serviceName, regions, spawned, wg, results, workerPc,
                   local, requests, reportJobs, calledWith, iamCount,
                   iamIdx, iamOut, pricingVars, idleVars, logsVars>>

\* processIAM: startScan and NewIAMClient(regions[0]); it starts no
\* goroutine. When the client cannot be built the scan prints the error and
\* returns.
processIAM ==
    /\ scanPc = "start"
    /\ serviceName = "IAM"
    /\ \/ /\ scanPc' = "users"
          /\ UNCHANGED iamOut
       \/ /\ scanPc' = "done"
          /\ iamOut' = [iamOut EXCEPT !.errors = @ \cup {"client"}]
    /\ UNCHANGED <<serviceName, regions, spawned, wg, results, workerPc,
                   local, allData, errorLines, requests, reportJobs,
                   calledWith, iamCount, iamIdx, pricingVars, idleVars, logsVars>>

\* GetIdleUsers, GetIdleRoles, GetIdlePolicies up to the analysis loop: the
\* listing (all its pages) fails, returns nothing, or returns n entities.
ListEntities(kind, request, analysis, after) ==
    /\ scanPc = kind
    /\ requests' = requests \cup {request}
    /\ \/ /\ iamOut' = [iamOut EXCEPT !.errors = @ \cup {kind}]
          /\ scanPc' = after
          /\ UNCHANGED iamCount
       \/ /\ iamCount' = 0
          /\ scanPc' = after
          /\ UNCHANGED iamOut
       \/ /\ \E n \in 1..MaxEntities : iamCount' = n
          /\ scanPc' = analysis
          /\ UNCHANGED iamOut
    /\ iamIdx' = 0
    /\ UNCHANGED <<serviceName, regions, spawned, wg, results, workerPc,
                   local, allData, errorLines, reportJobs, calledWith,
                   pricingVars, idleVars, logsVars>>

\* The position after the analysis of one more entity
AfterAnalysis(after) == IF iamIdx + 1 = iamCount THEN after ELSE scanPc

GetIdleUsers ==
    ListEntities("users", Req("List", "Users"), "analyzeUser", "roles")

\* analyzeUser for the next user of the listing; the report request starts
\* a job when it succeeds, and the job id is dropped.
analyzeUser ==
    /\ scanPc = "analyzeUser"
    /\ \E user \in IAMUsers : \E keyUsed \in Dates \cup {NoDate} :
       \E jobStarted \in BOOLEAN :
          /\ requests' = requests \cup UserRequests(user)
          /\ reportJobs' = reportJobs + (IF jobStarted THEN 1 ELSE 0)
          /\ iamOut' = [iamOut EXCEPT
                          !.users = Append(@, UserInfo(user, keyUsed))]
    /\ iamIdx' = iamIdx + 1
    /\ scanPc' = AfterAnalysis("roles")
    /\ UNCHANGED <<serviceName, regions, spawned, wg, results, workerPc,
                   local, allData, errorLines, calledWith, iamCount,
                   pricingVars, idleVars, logsVars>>

GetIdleRoles ==
    ListEntities("roles", Req("List", "Roles"), "analyzeRole", "policies")

\* analyzeRole for the next role of the listing
analyzeRole ==
    /\ scanPc = "analyzeRole"
    /\ \E role \in IAMRoles : \E lastUsed \in Dates \cup {NoDate} :
       \E jobStarted \in BOOLEAN :
          /\ requests' = requests \cup RoleRequests
          /\ reportJobs' = reportJobs + (IF jobStarted THEN 1 ELSE 0)
          /\ iamOut' = [iamOut EXCEPT
                          !.roles = Append(@, RoleInfo(role, lastUsed))]
    /\ iamIdx' = iamIdx + 1
    /\ scanPc' = AfterAnalysis("policies")
    /\ UNCHANGED <<serviceName, regions, spawned, wg, results, workerPc,
                   local, allData, errorLines, calledWith, iamCount,
                   pricingVars, idleVars, logsVars>>

GetIdlePolicies ==
    ListEntities("policies", Req("List", "Policies"), "analyzePolicy", "done")

\* analyzePolicy for the next policy of the listing
analyzePolicy ==
    /\ scanPc = "analyzePolicy"
    /\ \E policy \in IAMPolicies : \E jobStarted \in BOOLEAN :
          /\ requests' = requests \cup PolicyRequests
          /\ reportJobs' = reportJobs + (IF jobStarted THEN 1 ELSE 0)
          /\ iamOut' = [iamOut EXCEPT
                          !.policies = Append(@, PolicyInfo(policy))]
    /\ iamIdx' = iamIdx + 1
    /\ scanPc' = AfterAnalysis("done")
    /\ UNCHANGED <<serviceName, regions, spawned, wg, results, workerPc,
                   local, allData, errorLines, calledWith, iamCount,
                   pricingVars, idleVars, logsVars>>

\* The scan variables of a command that has not started a scan
NoScan ==
    /\ serviceName = "none"
    /\ regions = <<>>
    /\ scanPc = "done"
    /\ spawned = 0
    /\ wg = 0
    /\ results = <<>>
    /\ workerPc = [i \in Slots |-> "none"]
    /\ local = [i \in Slots |-> EmptyLocal]
    /\ allData = <<>>
    /\ errorLines = <<>>
    /\ requests = {}
    /\ reportJobs = 0
    /\ calledWith = [i \in Slots |-> ""]
    /\ iamCount = 0
    /\ iamIdx = 0
    /\ iamOut = EmptyIAMOut

\* ------------------------------------------------------------------------
\* The idle scans of log groups, Lambda functions, buckets and load
\* balancers: each step examines one resource of the listing

\* Most resources a listing returns
MaxResources == 2

\* time.Now() of the log scan, in days since the epoch
Now == 200

\* processLogs: idleThreshold := 90
idleThresholdDays == 90

\* ScanLogGroups: time.Now().AddDate(0, 0, -idleThresholdDays)
idleThresholdTime == Now - idleThresholdDays

\* Creation and event times: before, at and after the threshold time
LogTimes == {50, 110, 150}

\* The log groups DescribeLogGroups may list: no event is older than its
\* log group
LogGroups ==
    {lg \in [CreationTime : LogTimes, events : SUBSET LogTimes] :
        \A e \in lg.events : e >= lg.CreationTime}

\* The answers of FilterLogEvents to a request with Limit 1, StartTime 0,
\* EndTime now and no order: one event of the log group, no event, or an
\* error (CloudWatch Logs answers with the events oldest first)
FilterLogEvents(lg) ==
    {[err |-> "", Events |-> <<e>>] : e \in lg.events}
    \cup (IF lg.events = {}
          THEN {[err |-> "", Events |-> <<>>],
                [err |-> "ResourceNotFound", Events |-> <<>>]}
          ELSE {})
    \cup {[err |-> "other", Events |-> <<>>]}

\* getActualLastEventTimestamp: the timestamp and whether an error is
\* returned
getActualLastEventTimestamp(resp) ==
    IF resp.err = "ResourceNotFound" THEN [timestamp |-> 0, err |-> FALSE]
    ELSE IF resp.err # "" THEN [timestamp |-> 0, err |-> TRUE]
    ELSE IF Len(resp.Events) > 0
    THEN [timestamp |-> resp.Events[1], err |-> FALSE]
    ELSE [timestamp |-> 0, err |-> FALSE]

\* ScanLogGroups: the timestamp compared with the threshold time
effectiveTimestamp(actualLastEventTimestamp, creationTimestamp) ==
    IF actualLastEventTimestamp > 0 THEN actualLastEventTimestamp
    ELSE IF creationTimestamp > 0 THEN creationTimestamp
    ELSE 0

NoResource == [kind |-> "none"]

\* ScanLogGroups: one pass of the loop over the listed log groups
ScanLogGroups ==
    /\ resource.kind \in {"none", "logs"}
    /\ scanned < MaxResources
    /\ \E lg \in LogGroups : \E resp \in FilterLogEvents(lg) :
         LET actual == getActualLastEventTimestamp(resp)
             effective == effectiveTimestamp(actual.timestamp,
                                             lg.CreationTime)
             included == effective > 0 /\ effective < idleThresholdTime
         IN  /\ resource' = [kind |-> "logs",
                             CreationTime |-> lg.CreationTime,
                             events |-> lg.events,
                             resp |-> resp,
                             checkError |-> actual.err,
                             LastEventMillis |-> effective,
                             included |-> included]
             /\ reported' = reported + (IF included THEN 1 ELSE 0)
    /\ scanned' = scanned + 1
    /\ UNCHANGED <<listing, pricingVars, scanVars, logsVars>>

\* The pages DescribeLogGroups has at most for one region
MaxPages == 2

\* The fetch errors told apart; a longer list counts as this long
MaxFetchErrors == 2

\* pageCount is kept modulo this number
PageCountModulus == 4

\* cloudwatchlogs.NewDescribeLogGroupsPaginator: no page fetched yet, no
\* token; nextToken counts the pages that follow, 0 for none
NewDescribeLogGroupsPaginator == [firstPage |-> TRUE, nextToken |-> 0]

\* ScanLogGroups up to its first loop
NewListing ==
    [pc |-> "list", paginator |-> NewDescribeLogGroupsPaginator,
     pageCount |-> 0, fetchErrors |-> 0, preliminaryGroups |-> 0]

\* paginator.HasMorePages()
HasMorePages(p) == p.firstPage \/ p.nextToken # 0

\* After a failed paginator.NextPage: `break`, as GetIdleSecrets does
AfterPageError_Break(l) == [l EXCEPT !.pc = "done"]

\* After a failed paginator.NextPage: `continue`, back to HasMorePages()
AfterPageError(l) == l

\* ScanLogGroups: one pass of the loop that lists the log groups. A failed
\* NextPage leaves the paginator as it was; a page moves it to the token of
\* the response.
ListLogGroups ==
    /\ listing.pc = "list"
    /\ resource.kind = "none"
    /\ \/ /\ HasMorePages(listing.paginator)
          /\ LET counted == [listing EXCEPT
                               !.pageCount = (@ + 1) % PageCountModulus]
             IN  \/ listing' = AfterPageError(
                        [counted EXCEPT !.fetchErrors =
                            IF @ < MaxFetchErrors THEN @ + 1 ELSE @])
                 \/ \E groups \in 0..1 : \E following \in 0..(MaxPages - 1) :
                      /\ listing.preliminaryGroups + groups <= MaxResources
                      /\ listing' = [counted EXCEPT
                            !.paginator =
                                [firstPage |-> FALSE,
                                 nextToken |->
                                     IF listing.paginator.firstPage
                                     THEN following
                                     ELSE listing.paginator.nextToken - 1],
                            !.preliminaryGroups = @ + groups]
       \/ /\ ~HasMorePages(listing.paginator)
          /\ listing' = [listing EXCEPT !.pc = "done"]
    /\ UNCHANGED <<resource, scanned, reported, pricingVars, scanVars,
                   logsVars>>

\* ScanLogGroups: the loop over the groups the listing returned
CheckListedGroup ==
    /\ listing.pc = "done"
    /\ scanned < listing.preliminaryGroups
    /\ ScanLogGroups

\* LambdaClient.idleThreshold, in days
lambdaIdleThreshold == 30

\* The daily Invocations datapoints of the last 30 days; the timestamp is in
\* hours before the scan
LambdaDatapoints ==
    {[Timestamp |-> 30, Sum |-> 3], [Timestamp |-> 400, Sum |-> 0],
     [Timestamp |-> 719, Sum |-> 2]}

RECURSIVE SumOf(_)
SumOf(datapoints) ==
    IF datapoints = {} THEN 0
    ELSE LET dp == CHOOSE d \in datapoints : TRUE
         IN  dp.Sum + SumOf(datapoints \ {dp})

\* getFunctionMetrics: the total and the most recent datapoint with
\* invocations, or an error
getFunctionMetrics(datapoints, fails) ==
    IF fails
    THEN [err |-> TRUE, invocations |-> 0, lastInvocation |-> NoDate]
    ELSE LET invoked == {dp \in datapoints : dp.Sum > 0}
         IN  [err |-> FALSE,
              invocations |-> SumOf(datapoints),
              lastInvocation |->
                  IF invoked = {} THEN NoDate
                  ELSE (CHOOSE dp \in invoked :
                           \A other \in invoked :
                               dp.Timestamp <= other.Timestamp).Timestamp]

\* determineFunctionIdleStatus
determineFunctionIdleStatus(functionInfo) ==
    IF functionInfo.InvocationsLast30Days = 0 THEN TRUE
    ELSE IF /\ functionInfo.LastInvocation # NoDate
            /\ CalculateElapsedDays(functionInfo.LastInvocation)
                 > lambdaIdleThreshold
    THEN TRUE
    ELSE FALSE

\* analyzeFunction, and the STATUS cell PrintLambdaTable prints for it
analyzeFunction ==
    /\ resource.kind \in {"none", "lambda"}
    /\ scanned < MaxResources
    /\ \E datapoints \in SUBSET LambdaDatapoints : \E fails \in BOOLEAN :
         LET metrics == getFunctionMetrics(datapoints, fails)
             functionInfo ==
                 [InvocationsLast30Days |->
                      IF metrics.err THEN 0 ELSE metrics.invocations,
                  LastInvocation |->
                      IF metrics.err THEN NoDate ELSE metrics.lastInvocation]
             IsIdle == determineFunctionIdleStatus(functionInfo)
         IN  resource' = [kind |-> "lambda",
                          datapoints |-> datapoints,
                          metricsFailed |-> fails,
                          InvocationsLast30Days |->
                              functionInfo.InvocationsLast30Days,
                          LastInvocation |-> functionInfo.LastInvocation,
                          IsIdle |-> IsIdle,
                          status |-> IF IsIdle THEN "Idle" ELSE "Active"]
    /\ reported' = reported + 1
    /\ scanned' = scanned + 1
    /\ UNCHANGED <<listing, pricingVars, scanVars, logsVars>>

\* S3Client.idleThreshold, in days
s3IdleThreshold == 30

\* The two copies of the S3 client in the repository
S3Clients == {"part_010", "part_011"}

\* The buckets of the listing: whether it holds objects, the newest object's
\* date (hours before the scan) and the GetObject and PutObject requests of
\* the last 30 days
Buckets ==
    [IsEmpty : BOOLEAN, LastModified : {NoDate, 240, 984, 1680},
     GetRequests : {0, 4, 7, 50, 200}, PutRequests : {0, 2}]

\* determineBucketIdleStatus of src/unnamed/part_010
determineBucketIdleStatus_010(bucketInfo) ==
    IF bucketInfo.IsEmpty THEN TRUE
    ELSE IF /\ bucketInfo.LastModified # NoDate
            /\ CalculateElapsedDays(bucketInfo.LastModified)
                 <= s3IdleThreshold
    THEN FALSE
    ELSE IF /\ bucketInfo.LastModified # NoDate
            /\ bucketInfo.GetRequestsLast30Days < 10
    THEN TRUE
    ELSE IF /\ \/ bucketInfo.LastModified = NoDate
               \/ CalculateElapsedDays(bucketInfo.LastModified)
                    > s3IdleThreshold
            /\ bucketInfo.GetRequestsLast30Days = 0
            /\ bucketInfo.PutRequestsLast30Days = 0
    THEN TRUE
    ELSE FALSE

\* determineBucketIdleStatus with each documented criterion enough on its own
determineBucketIdleStatus_AnyCriterion(bucketInfo) ==
    \/ bucketInfo.IsEmpty
    \/ /\ bucketInfo.LastModified # NoDate
       /\ CalculateElapsedDays(bucketInfo.LastModified) > s3IdleThreshold
    \/ /\ bucketInfo.GetRequestsLast30Days = 0
       /\ bucketInfo.PutRequestsLast30Days = 0

\* determineBucketIdleStatus of src/unnamed/part_011
determineBucketIdleStatus(bucketInfo) ==
    IF bucketInfo.IsEmpty THEN TRUE
    ELSE IF bucketInfo.LastModified = NoDate
    THEN /\ bucketInfo.GetRequestsLast30Days = 0
         /\ bucketInfo.PutRequestsLast30Days = 0
    ELSE LET daysSinceModified ==
                 CalculateElapsedDays(bucketInfo.LastModified)
         IN  IF /\ bucketInfo.PutRequestsLast30Days = 0
                /\ daysSinceModified > s3IdleThreshold
             THEN IF bucketInfo.GetRequestsLast30Days < 5 THEN TRUE
                  ELSE IF /\ bucketInfo.GetRequestsLast30Days < 100
                          /\ daysSinceModified > s3IdleThreshold * 2
                  THEN TRUE
                  ELSE FALSE
             ELSE FALSE

\* analyzeBucket: HeadBucket or the object listing may fail, and the bucket
\* is then skipped; failed CloudWatch requests leave the request figures 0
analyzeBucket ==
    /\ resource.kind \in {"none", "s3"}
    /\ scanned < MaxResources
    /\ \E client \in S3Clients : \E bucket \in Buckets :
       \E accessible \in BOOLEAN : \E metricsFail \in BOOLEAN :
         LET bucketInfo ==
                 [IsEmpty |-> bucket.IsEmpty,
                  LastModified |-> bucket.LastModified,
                  GetRequestsLast30Days |->
                      IF metricsFail THEN 0 ELSE bucket.GetRequests,
                  PutRequestsLast30Days |->
                      IF metricsFail THEN 0 ELSE bucket.PutRequests]
             IsIdle == IF client = "part_010"
                       THEN determineBucketIdleStatus_010(bucketInfo)
                       ELSE determineBucketIdleStatus(bucketInfo)
         IN  IF accessible
             THEN /\ resource' = [kind |-> "s3", client |-> client,
                                  analyzed |-> TRUE,
                                  IsEmpty |-> bucketInfo.IsEmpty,
                                  LastModified |-> bucketInfo.LastModified,
                                  GetRequestsLast30Days |->
                                      bucketInfo.GetRequestsLast30Days,
                                  PutRequestsLast30Days |->
                                      bucketInfo.PutRequestsLast30Days,
                                  IsIdle |-> IsIdle]
                  /\ reported' = reported + 1
             ELSE /\ resource' = [kind |-> "s3", client |-> client,
                                  analyzed |-> FALSE]
                  /\ reported' = reported
    /\ scanned' = scanned + 1
    /\ UNCHANGED <<listing, pricingVars, scanVars, logsVars>>

\* The load balancers of the listing: the type, the targets of its target
\* groups (healthy and other) and the RequestCount sum (ALB) or the
\* ActiveFlowCount average (NLB) of the last 14 days
LoadBalancers ==
    [Type : {"application", "network"}, healthy : {0, 1}, others : {0, 1},
     traffic : {0, 5}]

\* checkLoadBalancerIdleStatus with a load balancer without healthy targets
\* idle whatever its traffic
checkLoadBalancerIdleStatus_ByTargets(lb, targetsFail, cwFails) ==
    IF targetsFail
    THEN [isIdle |-> FALSE, reason |-> "", err |-> TRUE]
    ELSE IF lb.healthy = 0
    THEN [isIdle |-> TRUE, reason |-> "No healthy targets registered",
          err |-> FALSE]
    ELSE IF cwFails
    THEN [isIdle |-> FALSE, reason |-> "", err |-> TRUE]
    ELSE [isIdle |-> lb.traffic = 0, reason |-> "", err |-> FALSE]

\* checkLoadBalancerIdleStatus: getTargetCounts or getMetricSum may fail
checkLoadBalancerIdleStatus(lb, targetsFail, cwFails) ==
    LET healthyTargets == lb.healthy
        totalTargets == lb.healthy + lb.others
        cwMetricReason == IF lb.Type = "application"
                          THEN "Zero RequestCount (14d)"
                          ELSE "Zero ActiveFlowCount (Avg, 14d)"
        targetReason == IF totalTargets = 0 THEN "No targets registered"
                        ELSE "No healthy targets registered"
        sum == lb.traffic
    IN  IF targetsFail
        THEN [isIdle |-> FALSE, reason |-> "", err |-> TRUE]
        ELSE IF cwFails
        THEN IF healthyTargets = 0
             THEN [isIdle |-> TRUE,
                   reason |-> targetReason \o " (CW Check Failed)",
                   err |-> FALSE]
             ELSE [isIdle |-> FALSE, reason |-> "", err |-> TRUE]
        ELSE IF healthyTargets = 0
        THEN IF sum = 0
             THEN [isIdle |-> TRUE,
                   reason |-> targetReason \o " & " \o cwMetricReason,
                   err |-> FALSE]
             ELSE [isIdle |-> FALSE, reason |-> "", err |-> FALSE]
        ELSE IF sum = 0
        THEN [isIdle |-> TRUE, reason |-> cwMetricReason, err |-> FALSE]
        ELSE [isIdle |-> FALSE, reason |-> "", err |-> FALSE]

\* GetIdleELBs: one pass of the loop over the listed ALBs and NLBs
GetIdleELBs ==
    /\ resource.kind \in {"none", "elb"}
    /\ scanned < MaxResources
    /\ \E lb \in LoadBalancers :
       \E targetsFail \in BOOLEAN : \E cwFails \in BOOLEAN :
         LET check == checkLoadBalancerIdleStatus(lb, targetsFail, cwFails)
             listed == ~check.err /\ check.isIdle
         IN  /\ resource' = [kind |-> "elb", Type |-> lb.Type,
                             healthy |-> lb.healthy,
                             totalTargets |-> lb.healthy + lb.others,
                             traffic |-> lb.traffic,
                             targetsFailed |-> targetsFail,
                             cwFailed |-> cwFails,
                             checkErr |-> check.err,
                             IdleReason |-> check.reason,
                             listed |-> listed]
             /\ reported' = reported + (IF listed THEN 1 ELSE 0)
    /\ scanned' = scanned + 1
    /\ UNCHANGED <<listing, pricingVars, scanVars, logsVars>>

\* The idle-scan variables of a command that has examined nothing yet
NoIdle ==
    /\ resource = NoResource
    /\ scanned = 0
    /\ reported = 0
    /\ listing = NewListing

\* ------------------------------------------------------------------------
\* processLogs: one worker per entry of the region list sends its errors on
\* a buffered channel, a further goroutine closes the channel after the
\* workers, and the main goroutine receives until the channel is closed

\* The numbers of errors one ScanLogGroups call may return: none, or more
\* than the channel holds for a single region
ScanErrorCounts == {0, 1, 3}

\* The region lists of the log scans: one region, and two
LogsRegionLists ==
    {<<"ap-northeast-2">>, <<"ap-northeast-2", "eu-west-1">>}

\* make(chan error, len(regions)*2)
ErrChanCap == Len(regions) * 2

\* The scan variables processLogs leaves alone
logsFrame ==
    <<serviceName, regions, results, requests, reportJobs, calledWith,
      iamCount, iamIdx, iamOut, pricingVars, idleVars>>

\* The error messages of worker i: the failed config load (n = 0) or the
\* n-th error of its ScanLogGroups call
ErrorMessage(i, n) == [slot |-> i, region |-> local[i].r, n |-> n]

\* processLogs: startScan and make(chan error, len(regions)*2)
StartLogs ==
    /\ scanPc = "start"
    /\ serviceName = "Logs"
    /\ errChan' = <<>>
    /\ scanPc' = "logsLoop"
    /\ UNCHANGED <<spawned, wg, workerPc, local, allData, errorLines,
                   closes, closerPc, pending, sent, allLogGroups, allErrors,
                   logsFrame>>

\* processLogs: one iteration of the loop over the region list, wg.Add(1)
\* and go func(r)
GoLogs ==
    /\ scanPc = "logsLoop"
    /\ spawned < Len(regions)
    /\ wg' = wg + 1
    /\ workerPc' = [workerPc EXCEPT ![spawned + 1] = "config"]
    /\ local' = [local EXCEPT ![spawned + 1].r = regions[spawned + 1]]
    /\ spawned' = spawned + 1
    /\ UNCHANGED <<scanPc, allData, errorLines, errChan, closes, closerPc,
                   pending, sent, allLogGroups, allErrors, logsFrame>>

\* processLogs: go func() { wg.Wait(); close(errChan) }(), and the main
\* goroutine enters handleErrors
GoCloser ==
    /\ scanPc = "logsLoop"
    /\ spawned = Len(regions)
    /\ closerPc' = "wait"
    /\ scanPc' = "range"
    /\ UNCHANGED <<spawned, wg, workerPc, local, allData, errorLines,
                   errChan, closes, pending, sent, allLogGroups, allErrors,
                   logsFrame>>

\* The worker: config.LoadDefaultConfig; on an error it has one message to
\* send before it returns
LoadDefaultConfig(i) ==
    /\ workerPc[i] = "config"
    /\ \/ /\ pending' = [pending EXCEPT ![i] = <<ErrorMessage(i, 0)>>]
          /\ local' = [local EXCEPT ![i].err = TRUE]
          /\ workerPc' = [workerPc EXCEPT ![i] = "send"]
       \/ /\ workerPc' = [workerPc EXCEPT ![i] = "scan"]
          /\ UNCHANGED <<pending, local>>
    /\ UNCHANGED <<scanPc, spawned, wg, allData, errorLines, errChan,
                   closes, closerPc, sent, allLogGroups, allErrors,
                   logsFrame>>

\* The worker: logGroups, scanErrs := aws.ScanLogGroups(cfg, idleThreshold),
\* which may return rows and errors together
CallScanLogGroups(i) ==
    /\ workerPc[i] = "scan"
    /\ \E rows \in {<<>>, <<local[i].r>>} : \E n \in ScanErrorCounts :
          /\ local' = [local EXCEPT ![i].data = rows, ![i].err = n > 0]
          /\ pending' = [pending EXCEPT
                           ![i] = [k \in 1..n |-> ErrorMessage(i, k)]]
          /\ workerPc' = [workerPc EXCEPT
                            ![i] = IF rows # <<>> THEN "append" ELSE "send"]
    /\ UNCHANGED <<scanPc, spawned, wg, allData, errorLines, errChan,
                   closes, closerPc, sent, allLogGroups, allErrors,
                   logsFrame>>

\* The worker: mu.Lock(); allLogGroups = append(...); mu.Unlock()
AppendLogGroups(i) ==
    /\ workerPc[i] = "append"
    /\ allLogGroups' = allLogGroups \o local[i].data
    /\ workerPc' = [workerPc EXCEPT ![i] = "send"]
    /\ UNCHANGED <<scanPc, spawned, wg, local, allData, errorLines,
                   errChan, closes, closerPc, pending, sent, allErrors,
                   logsFrame>>

\* A send on the channel goes through when the buffer has room; a send on
\* a closed channel panics and is no step of the scan
CanSend(ch, capacity, closed) == Len(ch) < capacity /\ closed = 0

\* The worker: errChan <- err, for the next of its errors
SendError(i) ==
    /\ workerPc[i] = "send"
    /\ pending[i] # <<>>
    /\ CanSend(errChan, ErrChanCap, closes)
    /\ errChan' = Append(errChan, Head(pending[i]))
    /\ sent' = sent \cup {Head(pending[i])}
    /\ pending' = [pending EXCEPT ![i] = Tail(@)]
    /\ UNCHANGED <<scanPc, spawned, wg, workerPc, local, allData,
                   errorLines, closes, closerPc, allLogGroups, allErrors,
                   logsFrame>>

\* The worker has sent all its errors and returns
LogsReturn(i) ==
    /\ workerPc[i] = "send"
    /\ pending[i] = <<>>
    /\ workerPc' = [workerPc EXCEPT ![i] = "defer"]
    /\ UNCHANGED <<scanPc, spawned, wg, local, allData, errorLines,
                   errChan, closes, closerPc, pending, sent, allLogGroups,
                   allErrors, logsFrame>>

\* The closing goroutine: wg.Wait()
CloserWait ==
    /\ closerPc = "wait"
    /\ WaitReturns(wg)
    /\ closerPc' = "close"
    /\ UNCHANGED <<scanPc, spawned, wg, workerPc, local, allData,
                   errorLines, errChan, closes, pending, sent, allLogGroups,
                   allErrors, logsFrame>>

\* The closing goroutine: close(errChan)
CloseErrChan ==
    /\ closerPc = "close"
    /\ closes' = closes + 1
    /\ closerPc' = "exited"
    /\ UNCHANGED <<scanPc, spawned, wg, workerPc, local, allData,
                   errorLines, errChan, pending, sent, allLogGroups,
                   allErrors, logsFrame>>

\* handleErrors: for err := range errChan, one received message
ReceiveError ==
    /\ scanPc = "range"
    /\ errChan # <<>>
    /\ allErrors' = Append(allErrors, Head(errChan))
    /\ errChan' = Tail(errChan)
    /\ UNCHANGED <<scanPc, spawned, wg, workerPc, local, allData,
                   errorLines, closes, closerPc, pending, sent,
                   allLogGroups, logsFrame>>

\* range with the loop left as soon as the channel is empty
RangeEnds_WhenEmpty(ch, closed) == ch = <<>>

\* range over a channel ends when the channel is closed and drained
RangeEnds(ch, closed) == ch = <<>> /\ closed > 0

\* handleErrors returns allErrors
handleErrors ==
    /\ scanPc = "range"
    /\ RangeEnds(errChan, closes)
    /\ scanPc' = "print"
    /\ UNCHANGED <<spawned, wg, workerPc, local, allData, errorLines,
                   errChan, closes, closerPc, pending, sent, allLogGroups,
                   allErrors, logsFrame>>

\* processLogs: the error list, then PrintLogGroupsTable(allLogGroups)
PrintLogGroupsTable ==
    /\ scanPc = "print"
    /\ errorLines' = allErrors
    /\ allData' = allLogGroups
    /\ scanPc' = "done"
    /\ UNCHANGED <<spawned, wg, workerPc, local, errChan, closes, closerPc,
                   pending, sent, allLogGroups, allErrors, logsFrame>>

\* The worker goroutine of processLogs
LogsWorker(i) ==
    \/ LoadDefaultConfig(i)
    \/ CallScanLogGroups(i)
    \/ AppendLogGroups(i)
    \/ SendError(i)
    \/ LogsReturn(i)
    \/ (serviceName = "Logs" /\ WgDone(i))

\* The closing goroutine of processLogs
Closer == CloserWait \/ CloseErrChan

\* The main goroutine in processLogs
MainLogs ==
    StartLogs \/ GoLogs \/ GoCloser \/ ReceiveError \/ handleErrors
        \/ PrintLogGroupsTable

\* The processLogs variables of a command that has not started a log scan
NoLogs ==
    /\ errChan = <<>>
    /\ closes = 0
    /\ closerPc = "none"
    /\ pending = [i \in Slots |-> <<>>]
    /\ sent = {}
    /\ allLogGroups = <<>>
    /\ allErrors = <<>>

Init ==
    /\ PricingInit
    /\ regionOf \in RegionLists
    /\ NoScan
    /\ NoIdle
    /\ NoLogs

\* The steps of a lookup between its call and its return
LookupSteps(p) ==
        \/ OnceDo(p)
        \/ InitPricingClient(p)
        \/ CacheRLock(p)
        \/ CacheRead(p)
        \/ CacheRUnlock(p)
        \/ StartServiceSpinner(p)
        \/ initPricingSpinner(p)
        \/ CallAPI(p)
        \/ StopServiceSpinner(p)
        \/ StatsLock(p)
        \/ StatsLoad(p)
        \/ StatsStore(p)
        \/ StatsUnlock(p)
        \/ CacheLock(p)
        \/ CacheWrite(p)
        \/ CacheUnlock(p)

Lookup(p) ==
        \/ StartLookup(p)
        \/ LookupSteps(p)
        \/ Return(p)

Next ==
    \/ \E p \in Procs : Lookup(p)
    \/ GetAPIStatsRLock
    \/ GetAPIStatsCopy
    \/ GetAPIStatsRUnlock

Spec == Init /\ [][Next]_vars

\* GetAPIStats as a function of the package: called at any moment
NextStats ==
    \/ \E p \in Procs : Lookup(p)
    \/ GetAPIStatsCalled
    \/ GetAPIStatsCopy
    \/ GetAPIStatsRUnlock

\* The lookups whose counters it copies are those of one region
InitStats ==
    /\ Init
    /\ \A p \in Procs : regionOf[p] = "ap-northeast-2"

SpecStats == InitStats /\ [][NextStats]_vars

\* Each region goroutine builds the row of one resource
NextRows ==
    \E p \in Procs :
        \/ StartRow(p)
        \/ LookupSteps(p)
        \/ SecondLookup(p)
        \/ BuildRow(p)

SpecRows == Init /\ [][NextRows]_vars

\* The scan of one service over one region list
InitScan ==
    /\ PricingInit
    /\ regionOf = [p \in Procs |-> "ap-northeast-2"]
    /\ serviceName \in ScanServices
    /\ regions \in RegionArgs
    /\ scanPc = "start"
    /\ spawned = 0
    /\ wg = 0
    /\ results = <<>>
    /\ workerPc = [i \in Slots |-> "none"]
    /\ local = [i \in Slots |-> EmptyLocal]
    /\ allData = <<>>
    /\ errorLines = <<>>
    /\ requests = {}
    /\ reportJobs = 0
    /\ calledWith = [i \in Slots |-> ""]
    /\ iamCount = 0
    /\ iamIdx = 0
    /\ iamOut = EmptyIAMOut
    /\ NoIdle
    /\ NoLogs

Worker(i) ==
    \/ SetRegion(i)
    \/ GetDataForRegion(i)
    \/ StoreResult(i)
    \/ NewConfigClient(i)
    \/ GetAllConfig(i)
    \/ WgDone(i)

NextScan ==
    \/ StartScan
    \/ GoRegion
    \/ \E i \in Slots : Worker(i)
    \/ WgWait
    \/ processResults
    \/ StartConfig
    \/ GoConfig
    \/ ConfigWait
    \/ processConfigResults
    \/ processIAM
    \/ GetIdleUsers
    \/ analyzeUser
    \/ GetIdleRoles
    \/ analyzeRole
    \/ GetIdlePolicies
    \/ analyzePolicy

SpecScan == InitScan /\ [][NextScan]_vars

\* The log scan on its own, every goroutine of it scheduled again and again
InitLogs ==
    /\ PricingInit
    /\ regionOf = [p \in Procs |-> "ap-northeast-2"]
    /\ serviceName = "Logs"
    /\ regions \in LogsRegionLists
    /\ scanPc = "start"
    /\ spawned = 0
    /\ wg = 0
    /\ results = <<>>
    /\ workerPc = [i \in Slots |-> "none"]
    /\ local = [i \in Slots |-> EmptyLocal]
    /\ allData = <<>>
    /\ errorLines = <<>>
    /\ requests = {}
    /\ reportJobs = 0
    /\ calledWith = [i \in Slots |-> ""]
    /\ iamCount = 0
    /\ iamIdx = 0
    /\ iamOut = EmptyIAMOut
    /\ NoIdle
    /\ NoLogs

NextLogs ==
    \/ \E i \in Slots : LogsWorker(i)
    \/ Closer
    \/ MainLogs

SpecLogs ==
    /\ InitLogs
    /\ [][NextLogs]_vars
    /\ \A i \in Slots : WF_vars(LogsWorker(i))
    /\ WF_vars(Closer)
    /\ WF_vars(MainLogs)

\* The idle scan of one service: log groups, Lambda functions, buckets or
\* load balancers
NextIdle ==
    \/ ScanLogGroups
    \/ analyzeFunction
    \/ analyzeBucket
    \/ GetIdleELBs

SpecIdle == Init /\ [][NextIdle]_vars

\* ScanLogGroups from the listing on; its two loops run on
NextListing ==
    \/ ListLogGroups
    \/ CheckListedGroup

SpecListing ==
    Init /\ [][NextListing]_vars
         /\ WF_vars(ListLogGroups) /\ WF_vars(CheckListedGroup)

\* ------------------------------------------------------------------------
\* Properties of the pricing lookups
\* ------------------------------------------------------------------------

\* The lookups that return a pricing-source tag.
TaggedFns == {EBSCostFn, EC2PriceFn}

\* The static table the default tier reads for a region: the region's own, or
\* the us-east-1 table when the region has none.
TableFor(region) ==
    IF region \in DOMAIN DefaultEBSPrices
    THEN DefaultEBSPrices[region]
    ELSE DefaultEBSPrices["us-east-1"]

\* The default tier has a price: the table lists the type or gp2.
TableHasPrice(volumeType, region) ==
    volumeType \in DOMAIN TableFor(region) \/ "gp2" \in DOMAIN TableFor(region)

\* The price of the default tier: the type's, else the gp2 price of the table.
TablePrice(volumeType, region) ==
    IF volumeType \in DOMAIN TableFor(region)
    THEN TableFor(region)[volumeType]
    ELSE TableFor(region)["gp2"]

\* C1: CalculateEBSMonthlyCostWithSource resolves its unit price in the order
\* cache, Pricing API (tried only on a miss and with a client), default
\* table (the region's price for the type, then its gp2 price; the us-east-1
\* table when the region has none), and answers (0, N/A) only when all fail.
C1_ThreeTierOrder ==
    \A p \in Procs :
        (pc[p] = "ret" /\ frame[p].fn = EBSCostFn) =>
            LET f == frame[p] IN
            /\ (f.api # "none") <=> (~f.inCache /\ PricingClient)
            /\ IF f.inCache
               THEN f.source = PricingSourceCache /\ f.cost = f.size * f.seen
               ELSE IF f.api = "ok"
               THEN f.source = PricingSourceAPI /\ f.cost = f.size * f.answer
               ELSE IF TableHasPrice(f.vt, regionOf[p])
               THEN /\ f.source = PricingSourceDefault
                    /\ f.cost = f.size * TablePrice(f.vt, regionOf[p])
               ELSE f.source = PricingSourceNA /\ f.cost = 0

\* A failed request for a type no table lists, in a region without a table:
\* the us-east-1 gp2 price.
C1_Witness ==
    \E p \in Procs :
        /\ pc[p] = "ret"
        /\ frame[p].fn = EBSCostFn
        /\ frame[p].api = "failed"
        /\ regionOf[p] = "eu-west-1"
        /\ frame[p].vt = "zz9"
        /\ frame[p].source = PricingSourceDefault
        /\ frame[p].cost = frame[p].size * 100

\* No step removes a key from either cache.
NoEviction ==
    /\ \A k \in DOMAIN EBSPricingCache : k \in DOMAIN EBSPricingCache'
    /\ \A k \in DOMAIN EC2PricingCache : k \in DOMAIN EC2PricingCache'

\* A lookup that found its key in the cache made no request and returns the
\* price it read.
HitsAnsweredFromCache ==
    \A p \in Procs :
        (pc[p] = "ret" /\ frame[p].inCache) =>
            /\ frame[p].api = "none"
            /\ frame[p].cost = frame[p].size * frame[p].seen
            /\ frame[p].fn \in TaggedFns => frame[p].source = PricingSourceCache

\* C2: the caches are memoization tables: an entry, once written, is never
\* removed, and a lookup that reads the cache after its key was written is
\* answered from the cache without a Pricing API request.
C2_Memoization == [][NoEviction]_vars /\ []HitsAnsweredFromCache

\* An EC2 lookup answered from the cache.
C2_Witness ==
    \E p \in Procs :
        /\ pc[p] = "ret"
        /\ frame[p].fn = EC2PriceFn
        /\ frame[p].inCache
        /\ frame[p].source = PricingSourceCache
        /\ frame[p].cost \in APIPrices

\* C3: a lookup returns one of the four tags, and the tag names the origin of
\* the figure: API iff this lookup fetched the price, Cache iff it read it
\* from the cache, Default iff it took it from the default table, N/A iff it
\* has no price (and the figure is 0).
C3_SourceTagsProvenance ==
    \A p \in Procs :
        (pc[p] = "ret" /\ frame[p].fn \in TaggedFns) =>
            LET f == frame[p] IN
            /\ f.source \in {PricingSourceAPI, PricingSourceCache,
                             PricingSourceDefault, PricingSourceNA}
            /\ (f.source = PricingSourceAPI) <=>
                   (~f.inCache /\ f.api = "ok" /\ f.cost = f.size * f.answer)
            /\ (f.source = PricingSourceCache) <=>
                   (f.inCache /\ f.cost = f.size * f.seen)
            /\ (f.source = PricingSourceDefault) <=>
                   (/\ ~f.inCache
                    /\ f.api # "ok"
                    /\ f.prov = "default"
                    /\ f.cost = f.size * TablePrice(f.vt, regionOf[p]))
            /\ (f.source = PricingSourceNA) <=>
                   (~f.inCache /\ f.api # "ok" /\ f.prov = "")
            /\ (f.source = PricingSourceNA) => f.cost = 0

\* An EBS lookup answered from the cache, and tagged so.
C3_Witness ==
    \E p \in Procs :
        /\ pc[p] = "ret"
        /\ frame[p].fn = EBSCostFn
        /\ frame[p].inCache
        /\ frame[p].source = PricingSourceCache

\* C4: a counter is updated only for the event it is named after: failure
\* only after a Pricing API request that was made and failed, success only
\* after one that succeeded, cache only after a lookup answered from the
\* cache.
C4_CountersMirrorEvents ==
    \A p \in Procs :
        pc[p] = "sstore" =>
            /\ frame[p].statType = "failure" => frame[p].api = "failed"
            /\ frame[p].statType = "success" => frame[p].api = "ok"
            /\ frame[p].statType = "cache" => frame[p].inCache

\* The lookups of a (service, region) pair that have updated their counter
\* and have not returned yet.
Counted(sr) ==
    {p \in Procs :
        /\ pc[p] \in {"sunlock", "wlock", "cwrite", "wunlock", "ret"}
        /\ <<ServiceOf(frame[p].fn), regionOf[p]>> = sr}

CounterSum(sr) ==
    LET c == StatsOf(PricingAPIStats, sr[1], sr[2]) IN
    c.success + c.failure + c.cache

\* C5: every lookup adds exactly one to exactly one counter of its (service,
\* region) pair, also when goroutines update the statistics at the same
\* time: the counters of a pair sum to the lookups of the pair that have
\* returned plus those that have updated their counter and are about to.
C5_OneIncrementPerLookup ==
    \A sr \in Services \X Regions :
        CounterSum(sr) = completed[sr] + Cardinality(Counted(sr))

\* Two goroutines of one region update the same counter at the same time.
C5_Witness ==
    \E p, q \in Procs :
        /\ p # q
        /\ regionOf[p] = regionOf[q]
        /\ pc[p] = "sstore"
        /\ pc[q] = "slock"
        /\ ServiceOf(frame[p].fn) = ServiceOf(frame[q].fn)
        /\ frame[p].statType = frame[q].statType

\* The map a goroutine is accessing, and whether it writes it.
Accesses ==
    {[who |-> p, map |-> LockOf(frame[p].fn), write |-> FALSE] :
        p \in {q \in Procs : pc[q] = "cread"}}
    \cup {[who |-> p, map |-> LockOf(frame[p].fn), write |-> TRUE] :
        p \in {q \in Procs : pc[q] = "cwrite"}}
    \cup {[who |-> p, map |-> "Stats", write |-> TRUE] :
        p \in {q \in Procs : pc[q] \in {"sload", "sstore"}}}
    \cup {[who |-> Main, map |-> "Stats", write |-> FALSE] :
        x \in {y \in {Main} : mainPc = "copy"}}

\* C6: every access to the EC2 cache, the EBS cache and the statistics map
\* holds the map's lock (read lock to read, write lock to write), and no two
\* goroutines access one map at the same time when one of them writes.
C6_MapsGuarded ==
    /\ \A a \in Accesses :
          IF a.write
          THEN locks[a.map].writer = a.who
          ELSE a.who \in locks[a.map].readers /\ locks[a.map].writer = NoProc
    /\ \A a, b \in Accesses :
          (a.who # b.who /\ a.map = b.map) => (~a.write /\ ~b.write)

\* A goroutine writes the EBS cache while another waits to read it.
C6_Witness ==
    \E p, q \in Procs :
        /\ p # q
        /\ pc[p] = "cwrite"
        /\ pc[q] = "rlock"
        /\ LockOf(frame[p].fn) = LockOf(frame[q].fn)

\* The main goroutine is at processResults, or past it
Joined == scanPc \in {"process", "done"}

\* The goroutines that have returned from getDataForRegion
Fetched == {i \in Slots : workerPc[i] \in {"store", "defer", "exited"}}

\* The scan has printed its tables (its client was built)
Printed == scanPc = "done" /\ "client" \notin iamOut.errors

\* C7, for every scan: once a scan has printed, it has launched exactly one
\* goroutine per entry of the region list and every one has finished.
C7_EveryScanFansOut ==
    Printed =>
        /\ Cardinality(Launched) = Len(regions)
        /\ \A i \in Launched : workerPc[i] = "exited"

\* C7, for the scans that go through processService: the scan launches one
\* goroutine per entry of the region list and no other, each fetches the
\* region of its own entry, and processResults (aggregation, error lines,
\* table) starts only after every one of them has called wg.Done. The IAM
\* scan launches no goroutine.
C7_FanOutJoin ==
    /\ serviceName \in RegionalServices =>
          /\ Launched = 1..spawned
          /\ spawned <= Len(regions)
          /\ \A i \in Fetched : calledWith[i] = regions[i]
          /\ Joined =>
                /\ Launched = 1..Len(regions)
                /\ \A i \in Launched : workerPc[i] = "exited"
          /\ scanPc # "done" => (allData = <<>> /\ errorLines = <<>>)
    /\ serviceName = "IAM" => Launched = {}

\* A scan of two regions has printed the rows of both and an IAM scan is
\* not involved.
C7_Witness ==
    /\ serviceName \in RegionalServices
    /\ scanPc = "done"
    /\ Len(regions) > 1
    /\ Len(allData) = Len(regions)

\* C8: when the Pricing API gives no price (no client, a failed request, no
\* product), a lookup still yields a price, for EC2 instance types as for
\* EBS volume types.
C8_FallbackYieldsPrice ==
    \A p \in Procs :
        (pc[p] = "ret" /\ frame[p].fn \in TaggedFns
            /\ ~frame[p].inCache /\ frame[p].api # "ok") =>
                /\ frame[p].source # PricingSourceNA
                /\ frame[p].cost > 0

\* C9: a cached price was fetched from the Pricing API: no default-table
\* price is stored in a cache, and no figure tagged Cache comes from the
\* default table.
C9_CacheHoldsFetchedPrices ==
    /\ \A k \in DOMAIN cacheProv : cacheProv[k] = "api"
    /\ \A p \in Procs :
          (pc[p] = "ret" /\ frame[p].source = PricingSourceCache) =>
              frame[p].prov = "api"

\* The verbs of the read queries
QueryVerbs == {"Describe", "List", "Get"}

\* C10: every AWS request of a scan is a describe, list or get query, and
\* no request starts anything in the account.
C10_ReadOnly ==
    /\ \A r \in requests : r.verb \in QueryVerbs
    /\ reportJobs = 0

PastOnce == {p \in Procs : pc[p] \notin {"idle", "once", "init"}}

\* A step runs InitPricingClient at most once: the Once goes from new to
\* running to done and never back, the function returns only in the step
\* from running to done, and the client is assigned in no other step.
OnceMonotone ==
    /\ onceState = "running" => onceState' \in {"running", "done"}
    /\ onceState = "done" => onceState' = "done"
    /\ (\E p \in Procs : pc[p] = "init" /\ pc'[p] # "init") =>
          (onceState = "running" /\ onceState' = "done")
    /\ ~(onceState = "running" /\ onceState' = "done") =>
          (PricingClient' = PricingClient /\ InitMessage' = InitMessage)

\* One goroutine at most is inside InitPricingClient, and a lookup that is
\* past the Once finds the initialisation complete.
ReadsAfterInit ==
    /\ Cardinality({p \in Procs : pc[p] = "init"}) <= 1
    /\ (onceState = "running") <=> (\E p \in Procs : pc[p] = "init")
    /\ \A p \in PastOnce : onceState = "done"

Built == {p \in Procs : row[p].step = 3}

\* C11: in every EC2 row, TOTAL SAVED = COST/MO * (days stopped / 30), with
\* COST/MO = hourly price * 730, whatever the two lookups returned.
C11_SavingsFromMonthlyCost ==
    \A p \in Built :
        row[p].kind = "EC2" =>
            30 * row[p].savings = row[p].monthlyCost * row[p].days

\* C12: in every EBS row, the monthly savings equal the estimated monthly
\* cost of the volume (size * price per GB-month), whatever the days.
C12_SavingsAreMonthlyCost ==
    \A p \in Built :
        row[p].kind = "EBS" => row[p].savings = row[p].monthlyCost

\* C13: the PRICING column of every EC2 and EBS row shows API, CACHE or N/A.
C13_PricingColumn ==
    \A p \in Built :
        GetPricingMarker(row[p].source) \in {"API", "CACHE", "N/A"}

\* The policies GetIdlePolicies has analysed so far
AnalysedPolicies == {iamOut.policies[k] : k \in 1..Len(iamOut.policies)}

LastEventTime(events) == CHOOSE e \in events : \A other \in events : other <= e

\* C14: a log group is included in the results exactly when its effective
\* timestamp is older than the idle threshold, the effective timestamp being
\* the time of its last event if the event check found an event and its
\* creation time otherwise (no event found, or the check returned an error).
C14_EffectiveTimestamp ==
    resource.kind = "logs" =>
        LET found == resource.resp.err = "" /\ Len(resource.resp.Events) > 0
            effective == IF found THEN LastEventTime(resource.events)
                         ELSE resource.CreationTime
        IN  resource.included <=> effective < idleThresholdTime

\* C15: the STATUS of a Lambda function is Idle if it had no invocation in
\* the last 30 days and Active otherwise.
C15_IdleIffNoInvocations ==
    resource.kind = "lambda" =>
        resource.status =
            IF \A dp \in resource.datapoints : dp.Sum = 0
            THEN "Idle" ELSE "Active"

\* The buckets analyzeBucket has analysed
AnalysedBucket == resource.kind = "s3" /\ resource.analyzed

\* The documented criteria of an idle bucket
NotModifiedWithinThreshold ==
    /\ resource.LastModified # NoDate
    /\ CalculateElapsedDays(resource.LastModified) > s3IdleThreshold

NoRequests ==
    /\ resource.GetRequestsLast30Days = 0
    /\ resource.PutRequestsLast30Days = 0

LogsWorkers == 1..Len(regions)

\* The log scan has printed its error list and its table
LogsPrinted ==
    /\ serviceName = "Logs"
    /\ scanPc = "done"

\* Once the log scan has printed: every worker has sent all its errors and
\* exited, the channel was closed once, and the printed list holds each
\* error sent exactly once
NothingLost ==
    LogsPrinted =>
        /\ \A i \in LogsWorkers :
              workerPc[i] = "exited" /\ pending[i] = <<>>
        /\ closes = 1
        /\ errChan = <<>>
        /\ Len(errorLines) = Cardinality(sent)
        /\ {errorLines[k] : k \in 1..Len(errorLines)} = sent

\* close(errChan) is called at most once and only after every worker has
\* called wg.Done
ClosedAfterWorkers ==
    /\ closes <= 1
    /\ closes > 0 =>
          /\ spawned = Len(regions)
          /\ \A i \in LogsWorkers : workerPc[i] = "exited"

NoSharedMap == \A service \in DOMAIN snapshot : ~IsShared(snapshot[service])

\* The copy is made while main holds the read lock and nobody the write lock
CopiedUnderRLock ==
    mainPc \in {"copy", "runlock"} =>
        /\ Main \in locks["Stats"].readers
        /\ locks["Stats"].writer = NoProc

\* Once copied, what is read through the snapshot does not change
SnapshotKept ==
    mainPc \in {"runlock", "printed"} => Deref(snapshot)' = Deref(snapshot)

\* C29: GetAPIStats returns a copy taken under the read lock; later counter
\* updates do not change it and it shares no map with the live statistics,
\* so that a write to it cannot reach them.
C29_SnapshotIsACopy ==
    /\ []NoSharedMap
    /\ []CopiedUnderRLock
    /\ [][SnapshotKept]_vars

\* GetAPIStats returned and a counter was updated afterwards
C29_Witness ==
    /\ mainPc = "printed"
    /\ DOMAIN snapshot # {}
    /\ Deref(snapshot) # PricingAPIStats

\* C27: a Lambda function whose metrics could not be retrieved is not given
\* the STATUS Idle: its invocation count is unknown, not zero.
C27_MetricsErrorIsNotIdle ==
    (resource.kind = "lambda" /\ resource.metricsFailed) =>
        resource.status # "Idle"

\* C26: the idle load balancers GetIdleELBs returned together with an error
\* are rows of the final ELB table.
C26_PartialELBsShown ==
    (scanPc = "done" /\ serviceName = "ELB (v2)") =>
        \A i \in 1..Len(regions) :
            \A k \in 1..Len(local[i].data) :
                \E n \in 1..Len(allData) : allData[n] = local[i].data[k]

\* C28: no two region goroutines of a service scan are given the same
\* region, so that each (service, region) pair is scanned at most once.
C28_ScannedAtMostOnce ==
    \A i, j \in Slots :
        (i # j /\ calledWith[i] # "") => calledWith[i] # calledWith[j]

\* C25: two EBS volumes of the same type in the same region are priced at
\* the same rate per GB within one invocation.
C25_SameKeySamePrice ==
    \A p, q \in Built :
        (row[p].kind = "EBS" /\ row[q].kind = "EBS"
            /\ regionOf[p] = regionOf[q]) =>
            row[p].monthlyCost * row[q].size = row[q].monthlyCost * row[p].size

\* C24: ScanLogGroups finishes listing the log groups, whatever the page
\* requests return.
C24_ListingEnds == <>(listing.pc = "done")

\* ------------------------------------------------------------------------
\* The results of the region goroutines
\* ------------------------------------------------------------------------

RECURSIVE ReturnedRows(_)
\* The rows the goroutines of the slots i.. got from a region scan that
\* returned no error, in the order of the region list
ReturnedRows(i) ==
    IF i > Len(regions) THEN <<>>
    ELSE (IF local[i].err THEN <<>> ELSE local[i].data) \o ReturnedRows(i + 1)

RECURSIVE FailedRegions(_)
\* The regions of the slots i.. whose scan returned an error
FailedRegions(i) ==
    IF i > Len(regions) THEN <<>>
    ELSE (IF local[i].err THEN <<local[i].r>> ELSE <<>>)
         \o FailedRegions(i + 1)

\* The scans that fan out over the region list
FanOutServices == RegionalServices \cup {"Config"}

OwnSlotOnly ==
    \A k \in DOMAIN results :
        (k \in DOMAIN results' /\ results'[k] # results[k]) =>
            workerPc'[k] # workerPc[k]

\* The main goroutine reads the slots only after every goroutine is done
ReadAfterJoin ==
    scanPc \in {"process", "cfgprocess"} =>
        \A i \in 1..Len(regions) : workerPc[i] = "exited"

\* From the join on every slot holds what the goroutine of its own entry of
\* the region list got
SlotsInListOrder ==
    (serviceName \in FanOutServices
        /\ scanPc \in {"process", "cfgprocess", "done"}) =>
        \A i \in 1..Len(regions) :
            /\ results[i].Region = regions[i]
            /\ results[i].Data = local[i].data
            /\ serviceName \in RegionalServices =>
                  results[i].Err = local[i].err

\* C22: during the fan-out of processService and of processConfig a region
\* goroutine writes the slot at its own index only, no slot is read before
\* the join, and after the join the slots hold the regions' results in the
\* order of the region list.
C22_OwnSlots ==
    /\ [][OwnSlotOnly]_vars
    /\ []ReadAfterJoin
    /\ []SlotsInListOrder

\* The goroutine of the second region has stored its rows and is done while
\* the goroutine of the first region is still at work
C22_Witness ==
    /\ serviceName \in FanOutServices
    /\ Len(regions) > 1
    /\ regions[1] # regions[2]
    /\ workerPc[2] = "exited"
    /\ results[2].Data = <<regions[2]>>
    /\ workerPc[1] \notin {"defer", "exited"}
    /\ results[1].Data = <<>>

====
